---- MODULE Spec2Model ----
(***************************************************************************)
(* ISO 10962 CFI code validation, as implemented by CFIValidator.validate  *)
(* in src/cfi_validator.py (compact form: flag and message) and in         *)
(* src/cfi_validator_test.py (detailed form: flag, message and the six     *)
(* per-position records).                                                  *)
(*                                                                         *)
(* Python values are modelled as records [type, chars, num]; a str is its  *)
(* sequence of code points, each code point written as a one-character     *)
(* string ("E", "e", "1") or, outside ASCII, by its Unicode name           *)
(* ("U+00DF").  A dict is the sequence of its <<key, value>> pairs in      *)
(* insertion order.  A message is the sequence of the pieces the f-string  *)
(* is assembled from.                                                      *)
(***************************************************************************)
EXTENDS Integers, Sequences, FiniteSets, TLC

VARIABLES cfi_code, compact, detailed

\* the arguments and the results of the attribute lookups
VARIABLES lookup, position_options, formatted, enhanced_formatted

\* the interactive generator: its local variables and what it returns
VARIABLES generator

\* the initial_prefix the generator was called with
VARIABLES passed_prefix

\* what display_cfi_details of each file printed and how it ended
VARIABLES displayed, enhanced_displayed

\* the objects of the program: the class-level tables and the dicts that
\* calls create; the validation calls in progress side by side
VARIABLES memory, calls

validation_vars == <<cfi_code, compact, detailed>>

introspection_vars == <<lookup, position_options, formatted, enhanced_formatted>>

generator_vars == <<generator, passed_prefix>>

display_vars == <<displayed, enhanced_displayed>>

vars == <<validation_vars, introspection_vars, generator_vars, display_vars, memory, calls>>

\* what a validation, a lookup, a generation leaves alone
outside_validation == <<introspection_vars, generator_vars, display_vars, calls>>

outside_introspection == <<validation_vars, generator_vars, display_vars, calls>>

outside_generator == <<validation_vars, introspection_vars, display_vars, calls>>

outside_display == <<compact, detailed, introspection_vars, generator_vars, calls>>

outside_calls == <<validation_vars, introspection_vars, generator_vars, display_vars>>

----------------------------------------------------------------------------
(* Python values *)

PyStr(s) == [type |-> "str", chars |-> s, num |-> 0]

PyNone == [type |-> "NoneType", chars |-> <<>>, num |-> 0]

PyInt(n) == [type |-> "int", chars |-> <<>>, num |-> n]

PyList(s) == [type |-> "list", chars |-> s, num |-> 0]

\* isinstance(v, str)
isinstance_str(v) == v.type = "str"

\* truth value of v, as tested by `not cfi_code`
truthy(v) ==
    CASE v.type = "NoneType" -> FALSE
      [] v.type = "int" -> v.num # 0
      [] OTHER -> Len(v.chars) > 0

\* the values None, True and False where a field holds any of the three
None == "None"

True == "True"

False == "False"

----------------------------------------------------------------------------
(* str methods on sequences of code points *)

ascii_uppercase ==
    <<"A", "B", "C", "D", "E", "F", "G", "H", "I", "J", "K", "L", "M",
      "N", "O", "P", "Q", "R", "S", "T", "U", "V", "W", "X", "Y", "Z">>

ascii_lowercase ==
    <<"a", "b", "c", "d", "e", "f", "g", "h", "i", "j", "k", "l", "m",
      "n", "o", "p", "q", "r", "s", "t", "u", "v", "w", "x", "y", "z">>

Range(s) == {s[i] : i \in DOMAIN s}

IndexOf(s, c) == CHOOSE i \in DOMAIN s : s[i] = c

\* LATIN SMALL LETTER SHARP S: a letter, uppercases to "SS"
SHARP_S == "U+00DF"

\* LATIN SMALL LETTER J WITH CARON: a letter, uppercases to "J" followed by
\* COMBINING CARON
J_CARON == "U+01F0"

\* COMBINING CARON: a nonspacing mark, not a letter
COMBINING_CARON == "U+030C"

\* the code points c for which c.isalpha() is True; every other code point
\* of the model (digits, space, punctuation, marks) is not alphabetic
char_isalpha(c) ==
    \/ c \in Range(ascii_uppercase)
    \/ c \in Range(ascii_lowercase)
    \/ c \in {SHARP_S, J_CARON}

\* c.upper() of one code point: a sequence, since the full Unicode case
\* mapping can expand one code point into several
char_upper(c) ==
    CASE c \in Range(ascii_lowercase) -> <<ascii_uppercase[IndexOf(ascii_lowercase, c)]>>
      [] c = SHARP_S -> <<"S", "S">>
      [] c = J_CARON -> <<"J", COMBINING_CARON>>
      [] OTHER -> <<c>>

\* s.isalpha(): every code point alphabetic and at least one code point
isalpha(s) == Len(s) > 0 /\ \A i \in DOMAIN s : char_isalpha(s[i])

RECURSIVE upper(_)
\* s.upper()
upper(s) == IF s = <<>> THEN <<>> ELSE char_upper(Head(s)) \o upper(Tail(s))

----------------------------------------------------------------------------
(* dict operations on sequences of <<key, value>> pairs *)

\* d.keys(), in insertion order
keys(d) == [i \in DOMAIN d |-> d[i][1]]

\* k in d
has_key(d, k) == \E i \in DOMAIN d : d[i][1] = k

\* d[k], for a key k of d
item(d, k) == d[CHOOSE i \in DOMAIN d : d[i][1] = k][2]

RECURSIVE join(_, _)
\* sep.join(s), as the sequence of its pieces
join(sep, s) ==
    IF s = <<>> THEN <<>>
    ELSE IF Len(s) = 1 THEN <<s[1]>>
    ELSE <<s[1], sep>> \o join(sep, Tail(s))

----------------------------------------------------------------------------
(* the taxonomy of src/cfi_validator.py *)

\* cfi_validator.py: CATEGORIES, code -> description, in definition order
CATEGORIES ==
    <<<<"E", "Equities">>,
      <<"D", "Debt instruments">>,
      <<"R", "Entitlements (Rights)">>,
      <<"O", "Options">>,
      <<"F", "Futures">>,
      <<"S", "Swaps">>,
      <<"H", "Forward rate agreements and forward foreign exchange">>,
      <<"M", "Others/Miscellaneous">>,
      <<"I", "Spot">>,
      <<"J", "Deposits, Credits and Current accounts">>,
      <<"K", "Loans">>,
      <<"L", "Spot foreign exchange">>,
      <<"T", "Referential instruments">>>>

\* cfi_validator.py: GROUPS, category -> (group code -> description)
GROUPS ==
    [ E |->
        <<<<"S", "Shares">>,
          <<"U", "Units (e.g., Unit trusts/Mutual funds)">>,
          <<"F", "Exchange Traded Funds (ETF)">>,
          <<"L", "Limited partnership units">>,
          <<"H", "Equity-held investment instruments">>,
          <<"R", "Real Estate Investment Trusts (REITs)">>,
          <<"P", "Protected and guaranteed equities">>,
          <<"C", "Cooperative">>,
          <<"X", "Other/Miscellaneous equities">>>>,
      D |->
        <<<<"B", "Bonds">>,
          <<"T", "Treasury notes/bonds">>,
          <<"C", "Convertible bonds">>,
          <<"Y", "Money market instruments">>,
          <<"G", "Structured instruments (with capital guarantee)">>,
          <<"F", "Bonds with warrants attached">>,
          <<"P", "Perpetual bonds">>,
          <<"S", "Structured instruments (without capital guarantee)">>,
          <<"I", "Inflation linked bonds">>>>,
      R |->
        <<<<"S", "Subscription rights">>,
          <<"D", "Dividend right certificates">>,
          <<"P", "Preference">>,
          <<"L", "Loyalty premiums">>,
          <<"F", "Founders shares">>,
          <<"Q", "Preference shares">>,
          <<"W", "Warrants">>,
          <<"B", "Redeemable preferred stocks">>,
          <<"T", "Miscellaneous entitlements">>>>,
      O |->
        <<<<"C", "Call options">>,
          <<"P", "Put options">>,
          <<"X", "Options on options">>,
          <<"W", "Warrants">>,
          <<"F", "Future options">>,
          <<"S", "Spread options">>,
          <<"R", "Basket options">>,
          <<"I", "Index options">>,
          <<"J", "Currency options">>>>,
      F |->
        <<<<"F", "Financial futures">>,
          <<"X", "Options on futures">>,
          <<"I", "Index futures">>,
          <<"R", "Interest rate futures">>,
          <<"E", "Currency futures">>,
          <<"C", "Commodity futures">>,
          <<"O", "Other futures">>,
          <<"W", "Weather-related futures">>,
          <<"B", "Bond futures">>>>,
      S |->
        <<<<"I", "Interest rate">>,
          <<"F", "Foreign exchange">>,
          <<"B", "Basis">>,
          <<"X", "Exchange swaps and cross-currency swaps">>,
          <<"S", "Securities">>,
          <<"W", "Weather-related swaps">>,
          <<"R", "Return swaps">>,
          <<"K", "Commodity">>,
          <<"P", "Options on swaps (swaptions)">>>>,
      H |->
        <<<<"F", "Forward foreign exchange agreements">>,
          <<"I", "Forward rate agreements">>,
          <<"X", "Other">>>>,
      M |->
        <<<<"C", "Commodity">>,
          <<"R", "Reference rate">>,
          <<"O", "Other">>,
          <<"F", "Foreign exchange">>>>,
      I |->
        <<<<"X", "Other">>,
          <<"F", "Foreign exchange">>,
          <<"C", "Commodity">>,
          <<"E", "Equity">>,
          <<"S", "Securities">>,
          <<"O", "Options">>>>,
      J |->
        <<<<"D", "Deposits">>,
          <<"C", "Credits">>,
          <<"N", "Non-redeemable money market instruments">>,
          <<"R", "Redeemable money market instruments">>,
          <<"S", "Structured capital guarantee">>>>,
      K |->
        <<<<"L", "Leveraged">>,
          <<"C", "Consumer">>,
          <<"M", "Mortgage">>,
          <<"S", "Syndicated">>,
          <<"G", "Government">>,
          <<"P", "Private">>,
          <<"F", "Federal agency">>,
          <<"A", "Agriculture">>>>,
      L |->
        <<<<"S", "Spot">>>>,
      T |->
        <<<<"I", "Interest/Yield rates">>,
          <<"R", "Reference rates">>,
          <<"F", "Foreign exchange rates">>,
          <<"U", "Economic indicators">>,
          <<"V", "Inflation rates">>,
          <<"N", "Reference indexes">>>> ]

\* cfi_validator.py: ATTRIBUTES, category+group -> (position -> (value -> description))
ATTRIBUTES ==
    [ ES |->
        << <<3, <<<<"V", "Voting">>,
                <<"N", "Non-voting">>,
                <<"R", "Restricted voting">>,
                <<"X", "Not applicable/Not specified">>>>>>,
           <<4, <<<<"R", "Restricted">>,
                <<"N", "Free">>,
                <<"X", "Not applicable/Not specified">>>>>>,
           <<5, <<<<"P", "Partly paid">>,
                <<"F", "Fully paid">>,
                <<"X", "Not applicable/Not specified">>>>>>,
           <<6, <<<<"B", "Bearer">>,
                <<"R", "Registered">>,
                <<"X", "Not applicable/Not specified">>>>>> >>,
      EU |->
        << <<3, <<<<"O", "Open-end">>,
                <<"C", "Closed-end">>,
                <<"X", "Not applicable/Not specified">>>>>>,
           <<4, <<<<"R", "Restricted">>,
                <<"N", "Free">>,
                <<"X", "Not applicable/Not specified">>>>>>,
           <<5, <<<<"D", "Limited dividend">>,
                <<"C", "Cumulative">>,
                <<"X", "Not applicable/Not specified">>>>>>,
           <<6, <<<<"B", "Bearer">>,
                <<"R", "Registered">>,
                <<"X", "Not applicable/Not specified">>>>>> >>,
      EF |->
        << <<3, <<<<"O", "Open-end">>,
                <<"C", "Closed-end">>,
                <<"X", "Not applicable/Not specified">>>>>>,
           <<4, <<<<"R", "Restricted">>,
                <<"N", "Free">>,
                <<"X", "Not applicable/Not specified">>>>>>,
           <<5, <<<<"S", "Synthetic">>,
                <<"P", "Physical">>,
                <<"H", "Hybrid">>,
                <<"X", "Not applicable/Not specified">>>>>>,
           <<6, <<<<"B", "Bearer">>,
                <<"R", "Registered">>,
                <<"X", "Not applicable/Not specified">>>>>> >>,
      DB |->
        << <<3, <<<<"F", "Fixed rate">>,
                <<"Z", "Zero coupon">>,
                <<"V", "Variable rate">>,
                <<"I", "Inflation linked">>,
                <<"X", "Not applicable/Not specified">>>>>>,
           <<4, <<<<"S", "Secured/Collateralized">>,
                <<"U", "Unsecured/Uncollateralized">>,
                <<"X", "Not applicable/Not specified">>>>>>,
           <<5, <<<<"G", "Government/State guarantee">>,
                <<"S", "Supranational guarantee">>,
                <<"C", "Corporate guarantee">>,
                <<"X", "Not applicable/Not specified">>>>>>,
           <<6, <<<<"B", "Bearer">>,
                <<"R", "Registered">>,
                <<"X", "Not applicable/Not specified">>>>>> >>,
      DT |->
        << <<3, <<<<"F", "Fixed rate">>,
                <<"Z", "Zero coupon">>,
                <<"V", "Variable rate">>,
                <<"I", "Inflation linked">>,
                <<"X", "Not applicable/Not specified">>>>>>,
           <<4, <<<<"S", "Secured/Collateralized">>,
                <<"U", "Unsecured/Uncollateralized">>,
                <<"X", "Not applicable/Not specified">>>>>>,
           <<5, <<<<"G", "Government/State guarantee">>,
                <<"S", "Supranational guarantee">>,
                <<"X", "Not applicable/Not specified">>>>>>,
           <<6, <<<<"B", "Bearer">>,
                <<"R", "Registered">>,
                <<"X", "Not applicable/Not specified">>>>>> >>,
      OC |->
        << <<3, <<<<"A", "American">>,
                <<"B", "Bermuda">>,
                <<"E", "European">>,
                <<"X", "Not applicable/Not specified">>>>>>,
           <<4, <<<<"S", "Standard">>,
                <<"N", "Non-standard">>,
                <<"X", "Not applicable/Not specified">>>>>>,
           <<5, <<<<"P", "Physical">>,
                <<"C", "Cash">>,
                <<"X", "Not applicable/Not specified">>>>>>,
           <<6, <<<<"X", "Not applicable/Not specified">>>>>> >>,
      OP |->
        << <<3, <<<<"A", "American">>,
                <<"B", "Bermuda">>,
                <<"E", "European">>,
                <<"X", "Not applicable/Not specified">>>>>>,
           <<4, <<<<"S", "Standard">>,
                <<"N", "Non-standard">>,
                <<"X", "Not applicable/Not specified">>>>>>,
           <<5, <<<<"P", "Physical">>,
                <<"C", "Cash">>,
                <<"X", "Not applicable/Not specified">>>>>>,
           <<6, <<<<"X", "Not applicable/Not specified">>>>>> >>,
      FF |->
        << <<3, <<<<"X", "Not applicable/Not specified">>>>>>,
           <<4, <<<<"S", "Standard">>,
                <<"N", "Non-standard">>,
                <<"X", "Not applicable/Not specified">>>>>>,
           <<5, <<<<"P", "Physical">>,
                <<"C", "Cash">>,
                <<"X", "Not applicable/Not specified">>>>>>,
           <<6, <<<<"X", "Not applicable/Not specified">>>>>> >>,
      SI |->
        << <<3, <<<<"F", "Fixed-floating">>,
                <<"L", "Fixed-fixed">>,
                <<"V", "Floating-floating">>,
                <<"X", "Not applicable/Not specified">>>>>>,
           <<4, <<<<"S", "Single currency">>,
                <<"M", "Multi-currency">>,
                <<"X", "Not applicable/Not specified">>>>>>,
           <<5, <<<<"X", "Not applicable/Not specified">>>>>>,
           <<6, <<<<"X", "Not applicable/Not specified">>>>>> >> ]

----------------------------------------------------------------------------
(* outcomes of a call *)

\* before the call
NotCalled == [status |-> "not called", exception |-> "", is_valid |-> FALSE, message |-> <<>>]

\* return is_valid, message
Return(is_valid, message) ==
    [status |-> "returned", exception |-> "", is_valid |-> is_valid, message |-> message]

\* an exception leaves the call
Raise(exception) ==
    [status |-> "raised", exception |-> exception, is_valid |-> FALSE, message |-> <<>>]

\* no return statement was reached yet: execution goes on with the next statement
Continue == [status |-> "continue", exception |-> "", is_valid |-> FALSE, message |-> <<>>]

----------------------------------------------------------------------------
(* CFIValidator.validate of src/cfi_validator.py *)

\* basic_validation with the alphabetic check made before the length check
basic_validation_alphabetic_first(code) ==
    IF ~truthy(code) \/ ~isinstance_str(code)
    THEN Return(FALSE, <<"CFI code must be a string">>)
    ELSE IF code.type # "str" THEN Raise("AttributeError")
    ELSE IF ~isalpha(code.chars)
    THEN Return(FALSE, <<"CFI code must contain only alphabetic characters">>)
    ELSE IF Len(code.chars) # 6
    THEN Return(FALSE, <<"CFI code must be exactly 6 characters">>)
    ELSE Continue

\* basic_validation rejecting only the codes shorter than 6 characters
basic_validation_too_short_only(code) ==
    IF ~truthy(code) \/ ~isinstance_str(code)
    THEN Return(FALSE, <<"CFI code must be a string">>)
    ELSE IF code.type \notin {"str", "list"} THEN Raise("TypeError")
    ELSE IF Len(code.chars) < 6
    THEN Return(FALSE, <<"CFI code must be exactly 6 characters">>)
    ELSE IF code.type # "str" THEN Raise("AttributeError")
    ELSE IF ~isalpha(code.chars)
    THEN Return(FALSE, <<"CFI code must contain only alphabetic characters">>)
    ELSE Continue

\* basic_validation testing only `not cfi_code`, without the isinstance test
basic_validation_without_isinstance(code) ==
    IF ~truthy(code)
    THEN Return(FALSE, <<"CFI code must be a string">>)
    ELSE IF code.type \notin {"str", "list"} THEN Raise("TypeError")
    ELSE IF Len(code.chars) # 6
    THEN Return(FALSE, <<"CFI code must be exactly 6 characters">>)
    ELSE IF code.type # "str" THEN Raise("AttributeError")
    ELSE IF ~isalpha(code.chars)
    THEN Return(FALSE, <<"CFI code must contain only alphabetic characters">>)
    ELSE Continue

\* "Basic validation": the type, length and isalpha() checks.  len() of a
\* value without a length raises TypeError and a list has no isalpha().
basic_validation(code) ==
    IF ~truthy(code) \/ ~isinstance_str(code)
    THEN Return(FALSE, <<"CFI code must be a string">>)
    ELSE IF code.type \notin {"str", "list"} THEN Raise("TypeError")
    ELSE IF Len(code.chars) # 6
    THEN Return(FALSE, <<"CFI code must be exactly 6 characters">>)
    ELSE IF code.type # "str" THEN Raise("AttributeError")
    ELSE IF ~isalpha(code.chars)
    THEN Return(FALSE, <<"CFI code must contain only alphabetic characters">>)
    ELSE Continue

category_message(category) ==
    <<"Invalid category '", category, "'. Must be one of: ">>
        \o join(", ", keys(CATEGORIES))

\* group_message listing the category codes in place of the group codes
group_message_listing_categories(category, group) ==
    <<"Invalid group '", group, "' for category '", category, "'. Valid groups: ">>
        \o join(", ", keys(CATEGORIES))

\* GROUPS[category] of a category that is no key of GROUPS raises KeyError
group_message(category, group) ==
    <<"Invalid group '", group, "' for category '", category, "'. Valid groups: ">>
        \o join(", ", keys(GROUPS[category]))

attribute_message(char, position_index, category_group, valid_chars) ==
    <<"Invalid attribute '", char, "' at position ", ToString(position_index),
      " for ", category_group, ". Valid options: ">>
        \o join(", ", valid_chars)

alphabetic_message(position_index) ==
    <<"Character at position ", ToString(position_index), " must be alphabetic">>

valid_message(category, group) ==
    <<"Valid CFI code for ", item(CATEGORIES, category), " - ",
      item(GROUPS[category], group)>>

RECURSIVE attribute_rules_loop(_, _, _)
\* for position in range(2, 6), for a category_group that is a key of
\* ATTRIBUTES; position is 0-indexed as in the source, s[position + 1] is
\* the source's cfi_code[position]
attribute_rules_loop(s, category_group, position) ==
    IF position >= 6 THEN Continue
    ELSE IF position + 1 > Len(s) THEN Raise("IndexError")
    ELSE LET char == s[position + 1]
             position_index == position + 1
         IN  IF has_key(ATTRIBUTES[category_group], position + 1)
             THEN LET valid_chars == keys(item(ATTRIBUTES[category_group], position + 1))
                  IN  IF char \notin Range(valid_chars)
                      THEN Return(FALSE, attribute_message(char, position_index,
                                                           category_group, valid_chars))
                      ELSE attribute_rules_loop(s, category_group, position + 1)
             ELSE IF ~isalpha(<<char>>)
                  THEN Return(FALSE, alphabetic_message(position_index))
                  ELSE attribute_rules_loop(s, category_group, position + 1)

\* alphabetic_loop accepting positions 3-6 unchecked
alphabetic_loop_unchecked(s, i) == Continue

RECURSIVE alphabetic_loop(_, _)
\* for i in range(2, 6), for a category_group without rules
alphabetic_loop(s, i) ==
    IF i >= 6 THEN Continue
    ELSE IF i + 1 > Len(s) THEN Raise("IndexError")
    ELSE IF ~isalpha(<<s[i + 1]>>)
         THEN Return(FALSE, alphabetic_message(i + 1))
         ELSE alphabetic_loop(s, i + 1)

\* the checks after normalisation: category, group, attributes
positional_validation(s) ==
    LET category == s[1]
        group == s[2]
        category_group == category \o group
    IN  IF ~has_key(CATEGORIES, category)
        THEN Return(FALSE, category_message(category))
        ELSE IF ~has_key(IF category \in DOMAIN GROUPS THEN GROUPS[category] ELSE <<>>, group)
        THEN IF category \in DOMAIN GROUPS
             THEN Return(FALSE, group_message(category, group))
             ELSE Raise("KeyError")
        ELSE LET attributes == IF category_group \in DOMAIN ATTRIBUTES
                               THEN attribute_rules_loop(s, category_group, 2)
                               ELSE alphabetic_loop(s, 2)
             IN  IF attributes.status # "continue"
                 THEN attributes
                 ELSE Return(TRUE, valid_message(category, group))

\* validate without the normalisation cfi_code = cfi_code.upper()
validate_without_upper(code) ==
    LET basic == basic_validation(code)
    IN  IF basic.status # "continue"
        THEN basic
        ELSE positional_validation(code.chars)

validate(code) ==
    LET basic == basic_validation(code)
    IN  IF basic.status # "continue"
        THEN basic
        ELSE positional_validation(upper(code.chars))


----------------------------------------------------------------------------
(* the taxonomy of src/cfi_validator_test.py *)

\* cfi_validator_test.py: POSITION_DESCRIPTIONS, position -> description
POSITION_DESCRIPTIONS ==
    <<<<1, "Category - Primary classification of the financial instrument">>,
      <<2, "Group - Secondary classification within the category">>,
      <<3, "Attribute 1 - Specific characteristics related to the instrument type">>,
      <<4, "Attribute 2 - Additional characteristics/features">>,
      <<5, "Attribute 3 - Further specification of the instrument">>,
      <<6, "Attribute 4 - Final specification details">>>>

\* cfi_validator_test.py: CATEGORIES, code -> description, in definition order
Enhanced_CATEGORIES ==
    <<<<"E", "Equities">>,
      <<"D", "Debt instruments">>,
      <<"R", "Entitlements (Rights)">>,
      <<"O", "Options">>,
      <<"F", "Futures">>,
      <<"S", "Swaps">>,
      <<"H", "Forward rate agreements and forward foreign exchange">>,
      <<"M", "Others/Miscellaneous">>,
      <<"I", "Spot">>,
      <<"J", "Deposits, Credits and Current accounts">>,
      <<"K", "Loans">>,
      <<"L", "Spot foreign exchange">>,
      <<"T", "Referential instruments">>>>

\* cfi_validator_test.py: GROUPS, category -> (group code -> description)
\* Enhanced_GROUPS from which the entry of category F is missing
Enhanced_GROUPS_without_F == [c \in DOMAIN GROUPS \ {"F"} |-> GROUPS[c]]

Enhanced_GROUPS ==
    [ E |->
        <<<<"S", "Shares">>,
          <<"U", "Units (e.g., Unit trusts/Mutual funds)">>,
          <<"F", "Exchange Traded Funds (ETF)">>,
          <<"L", "Limited partnership units">>,
          <<"H", "Equity-held investment instruments">>,
          <<"R", "Real Estate Investment Trusts (REITs)">>,
          <<"P", "Protected and guaranteed equities">>,
          <<"C", "Cooperative">>,
          <<"X", "Other/Miscellaneous equities">>>>,
      D |->
        <<<<"B", "Bonds">>,
          <<"T", "Treasury notes/bonds">>,
          <<"C", "Convertible bonds">>,
          <<"Y", "Money market instruments">>,
          <<"G", "Structured instruments (with capital guarantee)">>,
          <<"F", "Bonds with warrants attached">>,
          <<"P", "Perpetual bonds">>,
          <<"S", "Structured instruments (without capital guarantee)">>,
          <<"I", "Inflation linked bonds">>>>,
      R |->
        <<<<"S", "Subscription rights">>,
          <<"D", "Dividend right certificates">>,
          <<"P", "Preference">>,
          <<"L", "Loyalty premiums">>,
          <<"F", "Founders shares">>,
          <<"Q", "Preference shares">>,
          <<"W", "Warrants">>,
          <<"B", "Redeemable preferred stocks">>,
          <<"T", "Miscellaneous entitlements">>>>,
      O |->
        <<<<"C", "Call options">>,
          <<"P", "Put options">>,
          <<"X", "Options on options">>,
          <<"W", "Warrants">>,
          <<"F", "Future options">>,
          <<"S", "Spread options">>,
          <<"R", "Basket options">>,
          <<"I", "Index options">>,
          <<"J", "Currency options">>>>,
      F |->
        <<<<"F", "Financial futures">>,
          <<"X", "Options on futures">>,
          <<"I", "Index futures">>,
          <<"R", "Interest rate futures">>,
          <<"E", "Currency futures">>,
          <<"C", "Commodity futures">>,
          <<"O", "Other futures">>,
          <<"W", "Weather-related futures">>,
          <<"B", "Bond futures">>>>,
      S |->
        <<<<"I", "Interest rate">>,
          <<"F", "Foreign exchange">>,
          <<"B", "Basis">>,
          <<"X", "Exchange swaps and cross-currency swaps">>,
          <<"S", "Securities">>,
          <<"W", "Weather-related swaps">>,
          <<"R", "Return swaps">>,
          <<"K", "Commodity">>,
          <<"P", "Options on swaps (swaptions)">>>>,
      H |->
        <<<<"F", "Forward foreign exchange agreements">>,
          <<"I", "Forward rate agreements">>,
          <<"X", "Other">>>>,
      M |->
        <<<<"C", "Commodity">>,
          <<"R", "Reference rate">>,
          <<"O", "Other">>,
          <<"F", "Foreign exchange">>>>,
      I |->
        <<<<"X", "Other">>,
          <<"F", "Foreign exchange">>,
          <<"C", "Commodity">>,
          <<"E", "Equity">>,
          <<"S", "Securities">>,
          <<"O", "Options">>>>,
      J |->
        <<<<"D", "Deposits">>,
          <<"C", "Credits">>,
          <<"N", "Non-redeemable money market instruments">>,
          <<"R", "Redeemable money market instruments">>,
          <<"S", "Structured capital guarantee">>>>,
      K |->
        <<<<"L", "Leveraged">>,
          <<"C", "Consumer">>,
          <<"M", "Mortgage">>,
          <<"S", "Syndicated">>,
          <<"G", "Government">>,
          <<"P", "Private">>,
          <<"F", "Federal agency">>,
          <<"A", "Agriculture">>>>,
      L |->
        <<<<"S", "Spot">>>>,
      T |->
        <<<<"I", "Interest/Yield rates">>,
          <<"R", "Reference rates">>,
          <<"F", "Foreign exchange rates">>,
          <<"U", "Economic indicators">>,
          <<"V", "Inflation rates">>,
          <<"N", "Reference indexes">>>> ]

\* the ATTRIBUTES table with X left out of the values of FF at position 4
Enhanced_ATTRIBUTES_without_X ==
    [ATTRIBUTES EXCEPT !.FF = [@ EXCEPT ![2] = <<4, SubSeq(@[2], 1, 2)>>]]

\* cfi_validator_test.py: ATTRIBUTES, category+group -> (position -> (value -> description))
Enhanced_ATTRIBUTES ==
    [ ES |->
        << <<3, <<<<"V", "Voting">>,
                <<"N", "Non-voting">>,
                <<"R", "Restricted voting">>,
                <<"X", "Not applicable/Not specified">>>>>>,
           <<4, <<<<"R", "Restricted">>,
                <<"N", "Free">>,
                <<"X", "Not applicable/Not specified">>>>>>,
           <<5, <<<<"P", "Partly paid">>,
                <<"F", "Fully paid">>,
                <<"X", "Not applicable/Not specified">>>>>>,
           <<6, <<<<"B", "Bearer">>,
                <<"R", "Registered">>,
                <<"X", "Not applicable/Not specified">>>>>> >>,
      EU |->
        << <<3, <<<<"O", "Open-end">>,
                <<"C", "Closed-end">>,
                <<"X", "Not applicable/Not specified">>>>>>,
           <<4, <<<<"R", "Restricted">>,
                <<"N", "Free">>,
                <<"X", "Not applicable/Not specified">>>>>>,
           <<5, <<<<"D", "Limited dividend">>,
                <<"C", "Cumulative">>,
                <<"X", "Not applicable/Not specified">>>>>>,
           <<6, <<<<"B", "Bearer">>,
                <<"R", "Registered">>,
                <<"X", "Not applicable/Not specified">>>>>> >>,
      EF |->
        << <<3, <<<<"O", "Open-end">>,
                <<"C", "Closed-end">>,
                <<"X", "Not applicable/Not specified">>>>>>,
           <<4, <<<<"R", "Restricted">>,
                <<"N", "Free">>,
                <<"X", "Not applicable/Not specified">>>>>>,
           <<5, <<<<"S", "Synthetic">>,
                <<"P", "Physical">>,
                <<"H", "Hybrid">>,
                <<"X", "Not applicable/Not specified">>>>>>,
           <<6, <<<<"B", "Bearer">>,
                <<"R", "Registered">>,
                <<"X", "Not applicable/Not specified">>>>>> >>,
      DB |->
        << <<3, <<<<"F", "Fixed rate">>,
                <<"Z", "Zero coupon">>,
                <<"V", "Variable rate">>,
                <<"I", "Inflation linked">>,
                <<"X", "Not applicable/Not specified">>>>>>,
           <<4, <<<<"S", "Secured/Collateralized">>,
                <<"U", "Unsecured/Uncollateralized">>,
                <<"X", "Not applicable/Not specified">>>>>>,
           <<5, <<<<"G", "Government/State guarantee">>,
                <<"S", "Supranational guarantee">>,
                <<"C", "Corporate guarantee">>,
                <<"X", "Not applicable/Not specified">>>>>>,
           <<6, <<<<"B", "Bearer">>,
                <<"R", "Registered">>,
                <<"X", "Not applicable/Not specified">>>>>> >>,
      DT |->
        << <<3, <<<<"F", "Fixed rate">>,
                <<"Z", "Zero coupon">>,
                <<"V", "Variable rate">>,
                <<"I", "Inflation linked">>,
                <<"X", "Not applicable/Not specified">>>>>>,
           <<4, <<<<"S", "Secured/Collateralized">>,
                <<"U", "Unsecured/Uncollateralized">>,
                <<"X", "Not applicable/Not specified">>>>>>,
           <<5, <<<<"G", "Government/State guarantee">>,
                <<"S", "Supranational guarantee">>,
                <<"X", "Not applicable/Not specified">>>>>>,
           <<6, <<<<"B", "Bearer">>,
                <<"R", "Registered">>,
                <<"X", "Not applicable/Not specified">>>>>> >>,
      OC |->
        << <<3, <<<<"A", "American">>,
                <<"B", "Bermuda">>,
                <<"E", "European">>,
                <<"X", "Not applicable/Not specified">>>>>>,
           <<4, <<<<"S", "Standard">>,
                <<"N", "Non-standard">>,
                <<"X", "Not applicable/Not specified">>>>>>,
           <<5, <<<<"P", "Physical">>,
                <<"C", "Cash">>,
                <<"X", "Not applicable/Not specified">>>>>>,
           <<6, <<<<"X", "Not applicable/Not specified">>>>>> >>,
      OP |->
        << <<3, <<<<"A", "American">>,
                <<"B", "Bermuda">>,
                <<"E", "European">>,
                <<"X", "Not applicable/Not specified">>>>>>,
           <<4, <<<<"S", "Standard">>,
                <<"N", "Non-standard">>,
                <<"X", "Not applicable/Not specified">>>>>>,
           <<5, <<<<"P", "Physical">>,
                <<"C", "Cash">>,
                <<"X", "Not applicable/Not specified">>>>>>,
           <<6, <<<<"X", "Not applicable/Not specified">>>>>> >>,
      FF |->
        << <<3, <<<<"X", "Not applicable/Not specified">>>>>>,
           <<4, <<<<"S", "Standard">>,
                <<"N", "Non-standard">>,
                <<"X", "Not applicable/Not specified">>>>>>,
           <<5, <<<<"P", "Physical">>,
                <<"C", "Cash">>,
                <<"X", "Not applicable/Not specified">>>>>>,
           <<6, <<<<"X", "Not applicable/Not specified">>>>>> >>,
      SI |->
        << <<3, <<<<"F", "Fixed-floating">>,
                <<"L", "Fixed-fixed">>,
                <<"V", "Floating-floating">>,
                <<"X", "Not applicable/Not specified">>>>>>,
           <<4, <<<<"S", "Single currency">>,
                <<"M", "Multi-currency">>,
                <<"X", "Not applicable/Not specified">>>>>>,
           <<5, <<<<"X", "Not applicable/Not specified">>>>>>,
           <<6, <<<<"X", "Not applicable/Not specified">>>>>> >> ]

----------------------------------------------------------------------------
(* CFIValidator.validate of src/cfi_validator_test.py: the detailed form *)

\* the 'error' key of a record that has none
NoError == <<>>

\* "Prepare positions info dictionary"
initial_positions_info ==
    [i \in 1..6 |->
        [description |-> item(POSITION_DESCRIPTIONS, i),
         value |-> None, meaning |-> None, valid |-> None, error |-> NoError]]

DetailedNotCalled ==
    [status |-> "not called", exception |-> "", is_valid |-> FALSE, message |-> <<>>,
     positions_info |-> initial_positions_info]

\* return is_valid, message, positions_info
DetailedReturn(is_valid, message, positions_info) ==
    [status |-> "returned", exception |-> "", is_valid |-> is_valid, message |-> message,
     positions_info |-> positions_info]

DetailedRaise(exception) ==
    [status |-> "raised", exception |-> exception, is_valid |-> FALSE, message |-> <<>>,
     positions_info |-> initial_positions_info]

\* no return statement reached yet; positions_info as built so far
DetailedContinue(positions_info) ==
    [status |-> "continue", exception |-> "", is_valid |-> FALSE, message |-> <<>>,
     positions_info |-> positions_info]

\* positions_info[p]['value'] = char
set_value(positions_info, p, char) ==
    [positions_info EXCEPT ![p].value = char]

\* set_valid leaving the meaning unset
set_valid_without_meaning(positions_info, p, meaning) ==
    [positions_info EXCEPT ![p].valid = True]

\* positions_info[p]['meaning'] = meaning; positions_info[p]['valid'] = True
set_valid(positions_info, p, meaning) ==
    [positions_info EXCEPT ![p].meaning = meaning, ![p].valid = True]

\* set_invalid recording the error text but not the flag
set_invalid_error_only(positions_info, p, message) ==
    [positions_info EXCEPT ![p].error = message]

\* positions_info[p]['valid'] = False; positions_info[p]['error'] = message
set_invalid(positions_info, p, message) ==
    [positions_info EXCEPT ![p].valid = False, ![p].error = message]

Enhanced_basic_validation(code, positions_info) ==
    IF ~truthy(code) \/ ~isinstance_str(code)
    THEN DetailedReturn(FALSE, <<"CFI code must be a string">>, positions_info)
    ELSE IF code.type \notin {"str", "list"} THEN DetailedRaise("TypeError")
    ELSE IF Len(code.chars) # 6
    THEN DetailedReturn(FALSE, <<"CFI code must be exactly 6 characters">>, positions_info)
    ELSE IF code.type # "str" THEN DetailedRaise("AttributeError")
    ELSE IF ~isalpha(code.chars)
    THEN DetailedReturn(FALSE, <<"CFI code must contain only alphabetic characters">>,
                        positions_info)
    ELSE DetailedContinue(positions_info)

Enhanced_category_message(category) ==
    <<"Invalid category '", category, "'. Must be one of: ">>
        \o join(", ", keys(Enhanced_CATEGORIES))

Enhanced_group_message(category, group) ==
    <<"Invalid group '", group, "' for category '", category, "'. Valid groups: ">>
        \o join(", ", keys(Enhanced_GROUPS[category]))

Enhanced_attribute_message(char, position_index, category_group, valid_chars) ==
    <<"Invalid attribute '", char, "' at position ", ToString(position_index),
      " for ", category_group, ". Valid options: ">>
        \o join(", ", valid_chars)

Enhanced_alphabetic_message(position_index) ==
    <<"Character at position ", ToString(position_index), " must be alphabetic">>

\* Enhanced_valid_message naming the category twice
Enhanced_valid_message_category_twice(category, group) ==
    <<"Valid CFI code for ", item(Enhanced_CATEGORIES, category), " - ",
      item(Enhanced_CATEGORIES, category)>>

Enhanced_valid_message(category, group) ==
    <<"Valid CFI code for ", item(Enhanced_CATEGORIES, category), " - ",
      item(Enhanced_GROUPS[category], group)>>

RECURSIVE Enhanced_attribute_rules_loop(_, _, _, _)
\* for position in range(2, 6), for a category_group that is a key of ATTRIBUTES
Enhanced_attribute_rules_loop(s, category_group, position, positions_info) ==
    IF position >= 6 THEN DetailedContinue(positions_info)
    ELSE IF position + 1 > Len(s) THEN DetailedRaise("IndexError")
    ELSE LET char == s[position + 1]
             position_index == position + 1
             info == set_value(positions_info, position_index, char)
             rules == Enhanced_ATTRIBUTES[category_group]
         IN  IF has_key(rules, position_index)
             THEN LET valid_chars == keys(item(rules, position_index))
                      error == Enhanced_attribute_message(char, position_index,
                                                          category_group, valid_chars)
                  IN  IF char \in Range(valid_chars)
                      THEN Enhanced_attribute_rules_loop(s, category_group, position + 1,
                               set_valid(info, position_index,
                                         item(item(rules, position_index), char)))
                      ELSE DetailedReturn(FALSE, error,
                                          set_invalid(info, position_index, error))
             ELSE IF isalpha(<<char>>)
                  THEN Enhanced_attribute_rules_loop(s, category_group, position + 1,
                           set_valid(info, position_index,
                                     "Custom attribute (no predefined meaning)"))
                  ELSE LET error == Enhanced_alphabetic_message(position_index)
                       IN  DetailedReturn(FALSE, error,
                                          set_invalid(info, position_index, error))

RECURSIVE Enhanced_alphabetic_loop_custom_only(_, _, _)
\* Enhanced_alphabetic_loop without the branch that labels X
Enhanced_alphabetic_loop_custom_only(s, i, positions_info) ==
    IF i >= 6 THEN DetailedContinue(positions_info)
    ELSE IF i + 1 > Len(s) THEN DetailedRaise("IndexError")
    ELSE LET position_index == i + 1
             char == s[i + 1]
             info == set_value(positions_info, position_index, char)
         IN  IF isalpha(<<char>>)
             THEN Enhanced_alphabetic_loop_custom_only(s, i + 1,
                      set_valid(info, position_index,
                                "Custom attribute (no predefined meaning)"))
             ELSE LET error == Enhanced_alphabetic_message(position_index)
                  IN  DetailedReturn(FALSE, error, set_invalid(info, position_index, error))

RECURSIVE Enhanced_alphabetic_loop(_, _, _)
\* for i in range(2, 6), for a category_group without rules
Enhanced_alphabetic_loop(s, i, positions_info) ==
    IF i >= 6 THEN DetailedContinue(positions_info)
    ELSE IF i + 1 > Len(s) THEN DetailedRaise("IndexError")
    ELSE LET position_index == i + 1
             char == s[i + 1]
             info == set_value(positions_info, position_index, char)
         IN  IF isalpha(<<char>>)
             THEN Enhanced_alphabetic_loop(s, i + 1,
                      set_valid(info, position_index,
                                IF char = "X" THEN "Not applicable/Not specified"
                                ELSE "Custom attribute (no predefined meaning)"))
             ELSE LET error == Enhanced_alphabetic_message(position_index)
                  IN  DetailedReturn(FALSE, error, set_invalid(info, position_index, error))

\* the checks after normalisation: category, group, attributes
Enhanced_positional_validation(s, positions_info) ==
    LET category == s[1]
        group == s[2]
        category_group == category \o group
        info1 == set_value(positions_info, 1, category)
        valid1 == set_valid(info1, 1, item(Enhanced_CATEGORIES, category))
        info2 == set_value(valid1, 2, group)
        valid2 == set_valid(info2, 2, item(Enhanced_GROUPS[category], group))
    IN  IF ~has_key(Enhanced_CATEGORIES, category)
        THEN LET error == Enhanced_category_message(category)
             IN  DetailedReturn(FALSE, error, set_invalid(info1, 1, error))
        ELSE IF ~has_key(IF category \in DOMAIN Enhanced_GROUPS
                         THEN Enhanced_GROUPS[category] ELSE <<>>, group)
        THEN IF category \in DOMAIN Enhanced_GROUPS
             THEN LET error == Enhanced_group_message(category, group)
                  IN  DetailedReturn(FALSE, error, set_invalid(info2, 2, error))
             ELSE DetailedRaise("KeyError")
        ELSE LET attributes == IF category_group \in DOMAIN Enhanced_ATTRIBUTES
                               THEN Enhanced_attribute_rules_loop(s, category_group, 2, valid2)
                               ELSE Enhanced_alphabetic_loop(s, 2, valid2)
             IN  IF attributes.status # "continue"
                 THEN attributes
                 ELSE DetailedReturn(TRUE, Enhanced_valid_message(category, group),
                                     attributes.positions_info)

Enhanced_validate(code) ==
    LET basic == Enhanced_basic_validation(code, initial_positions_info)
    IN  IF basic.status # "continue"
        THEN basic
        ELSE Enhanced_positional_validation(upper(code.chars), basic.positions_info)


----------------------------------------------------------------------------
(* format_attribute_options of both files, get_position_options of         *)
(* src/cfi_validator_test.py.  An argument is None or a str, written as    *)
(* the string itself.                                                      *)

\* one rendered line, f"  {key} - {value}"
option_line(key, value) == <<"  ", key, " - ", value>>

FormatNotCalled == [status |-> "not called", exception |-> "", lines |-> <<>>]

\* return "\n".join(lines)
FormatReturn(lines) == [status |-> "returned", exception |-> "", lines |-> lines]

FormatRaise(exception) == [status |-> "raised", exception |-> exception, lines |-> <<>>]

\* src/cfi_validator.py; category + group raises TypeError when one is None
format_attribute_options(category, group, position) ==
    IF category = None \/ group = None THEN FormatRaise("TypeError")
    ELSE LET category_group == category \o group
         IN  IF /\ category_group \in DOMAIN ATTRIBUTES
                /\ has_key(ATTRIBUTES[category_group], position)
             THEN LET opts == item(ATTRIBUTES[category_group], position)
                  IN  FormatReturn([i \in DOMAIN opts |-> option_line(opts[i][1], opts[i][2])])
             ELSE FormatReturn(<<option_line("X", "Not applicable/Not specified")>>)

\* src/cfi_validator_test.py
Enhanced_format_attribute_options(category, group, position) ==
    IF category = None \/ group = None THEN FormatRaise("TypeError")
    ELSE LET category_group == category \o group
         IN  IF /\ category_group \in DOMAIN Enhanced_ATTRIBUTES
                /\ has_key(Enhanced_ATTRIBUTES[category_group], position)
             THEN LET opts == item(Enhanced_ATTRIBUTES[category_group], position)
                  IN  FormatReturn([i \in DOMAIN opts |-> option_line(opts[i][1], opts[i][2])])
             ELSE FormatReturn(<<option_line("X", "Not applicable/Not specified")>>)

\* the truth value of an argument that is None or a str
arg_truthy(arg) == arg # None /\ arg # ""

OptionsNotCalled == [status |-> "not called", value |-> <<>>]

\* return the dict
OptionsReturn(value) == [status |-> "returned", value |-> value]

\* get_position_options with the empty dict as the fallback of positions 3-6
get_position_options_empty_fallback(category, group, position) ==
    IF position = 1 THEN OptionsReturn(Enhanced_CATEGORIES)
    ELSE IF position = 2 /\ category # None /\ has_key(Enhanced_CATEGORIES, category)
    THEN OptionsReturn(IF category \in DOMAIN Enhanced_GROUPS
                       THEN Enhanced_GROUPS[category] ELSE <<>>)
    ELSE IF position \in {3, 4, 5, 6} /\ arg_truthy(category) /\ arg_truthy(group)
    THEN LET category_group == category \o group
         IN  IF /\ category_group \in DOMAIN Enhanced_ATTRIBUTES
                /\ has_key(Enhanced_ATTRIBUTES[category_group], position)
             THEN OptionsReturn(item(Enhanced_ATTRIBUTES[category_group], position))
             ELSE OptionsReturn(<<>>)
    ELSE OptionsReturn(<<>>)

\* get_position_options that offers the categories where the groups are asked
get_position_options_categories_for_groups(category, group, position) ==
    IF position \in {1, 2} THEN OptionsReturn(Enhanced_CATEGORIES)
    ELSE IF position \in {3, 4, 5, 6} /\ arg_truthy(category) /\ arg_truthy(group)
    THEN LET category_group == category \o group
         IN  IF /\ category_group \in DOMAIN Enhanced_ATTRIBUTES
                /\ has_key(Enhanced_ATTRIBUTES[category_group], position)
             THEN OptionsReturn(item(Enhanced_ATTRIBUTES[category_group], position))
             ELSE OptionsReturn(<<<<"X", "Not applicable/Not specified">>>>)
    ELSE OptionsReturn(<<>>)

get_position_options(category, group, position) ==
    IF position = 1 THEN OptionsReturn(Enhanced_CATEGORIES)
    ELSE IF position = 2 /\ category # None /\ has_key(Enhanced_CATEGORIES, category)
    THEN OptionsReturn(IF category \in DOMAIN Enhanced_GROUPS
                       THEN Enhanced_GROUPS[category] ELSE <<>>)
    ELSE IF position \in {3, 4, 5, 6} /\ arg_truthy(category) /\ arg_truthy(group)
    THEN LET category_group == category \o group
         IN  IF /\ category_group \in DOMAIN Enhanced_ATTRIBUTES
                /\ has_key(Enhanced_ATTRIBUTES[category_group], position)
             THEN OptionsReturn(item(Enhanced_ATTRIBUTES[category_group], position))
             ELSE OptionsReturn(<<<<"X", "Not applicable/Not specified">>>>)
    ELSE OptionsReturn(<<>>)

----------------------------------------------------------------------------
(* generate_cfi_code of both files.  A text is a sequence of characters;   *)
(* category and group are None until chosen, written <<>> as only their    *)
(* truth value is read before that.  The generator stops at each input().  *)

GeneratorNotCalled ==
    [form |-> "", pc |-> "not called", category |-> <<>>, group |-> <<>>,
     cfi_code |-> <<>>, position |-> 0, result |-> PyNone]

\* text in dict, the keys being single characters
str_in(text, dict) == Len(text) = 1 /\ has_key(dict, text[1])

\* generate_return that returns the assembled code unchecked
generate_return_unchecked(code) == PyStr(code)

\* is_valid, message = CFIValidator.validate(cfi_code); the code or None
generate_return(code) ==
    IF validate(PyStr(code)).is_valid THEN PyStr(code) ELSE PyNone

\* cfi_code += attr, then the next position or the end of range(3, 7)
append_attribute(g, attr) ==
    LET cfi_code_ == g.cfi_code \o attr
    IN  IF g.position = 6
        THEN [g EXCEPT !.cfi_code = cfi_code_, !.position = 7, !.pc = "done",
                       !.result = generate_return(cfi_code_)]
        ELSE [g EXCEPT !.cfi_code = cfi_code_, !.position = @ + 1]

\* one answer to the pending input() of src/cfi_validator.py
generate_input(g, answer) ==
    LET attr == upper(answer)
    IN  CASE g.pc = "category" ->
               IF str_in(attr, CATEGORIES)
               THEN [g EXCEPT !.category = attr, !.pc = "group"]
               ELSE g
          [] g.pc = "group" ->
               IF str_in(attr, GROUPS[g.category[1]])
               THEN [g EXCEPT !.group = attr, !.cfi_code = g.category \o attr,
                              !.pc = "attribute", !.position = 3]
               ELSE g
          [] g.pc = "attribute" ->
               LET category_group == g.category[1] \o g.group[1]
               IN  IF /\ category_group \in DOMAIN ATTRIBUTES
                      /\ has_key(ATTRIBUTES[category_group], g.position)
                   THEN IF \/ str_in(attr, item(ATTRIBUTES[category_group], g.position))
                           \/ attr = <<"X">>
                        THEN append_attribute(g, attr)
                        ELSE g
                   ELSE append_attribute(g, IF attr = <<>> THEN <<"X">> ELSE attr)

\* is_valid, message, positions_info = CFIValidator.validate(cfi_code)
Enhanced_generate_return(code) ==
    IF Enhanced_validate(PyStr(code)).is_valid THEN PyStr(code) ELSE PyNone

Enhanced_append_attribute(g, attr) ==
    LET cfi_code_ == g.cfi_code \o attr
    IN  IF g.position = 6
        THEN [g EXCEPT !.cfi_code = cfi_code_, !.position = 7, !.pc = "done",
                       !.result = Enhanced_generate_return(cfi_code_)]
        ELSE [g EXCEPT !.cfi_code = cfi_code_, !.position = @ + 1]

\* for position in range(current_position, 7)
attribute_steps(g, current_position) ==
    IF current_position >= 7
    THEN [g EXCEPT !.pc = "done", !.position = current_position,
                   !.result = Enhanced_generate_return(g.cfi_code)]
    ELSE [g EXCEPT !.pc = "attribute", !.position = current_position]

RECURSIVE prefix_attributes_unchecked(_, _, _, _)
\* prefix_attributes that keeps every character of the prefix
prefix_attributes_unchecked(initial_prefix, category_group, position, cfi_code_) ==
    IF position > 6 \/ position > Len(initial_prefix) THEN cfi_code_
    ELSE prefix_attributes_unchecked(initial_prefix, category_group, position + 1,
                                     cfi_code_ \o <<initial_prefix[position]>>)

RECURSIVE prefix_attributes(_, _, _, _)
\* for i in range(2, min(6, len(initial_prefix))), position being i + 1
prefix_attributes(initial_prefix, category_group, position, cfi_code_) ==
    IF position > 6 \/ position > Len(initial_prefix) THEN cfi_code_
    ELSE LET char == initial_prefix[position]
         IN  IF /\ category_group \in DOMAIN Enhanced_ATTRIBUTES
                /\ has_key(Enhanced_ATTRIBUTES[category_group], position)
             THEN IF \/ has_key(item(Enhanced_ATTRIBUTES[category_group], position), char)
                     \/ char = "X"
                  THEN prefix_attributes(initial_prefix, category_group, position + 1,
                                         cfi_code_ \o <<char>>)
                  ELSE cfi_code_
             ELSE IF char_isalpha(char)
                  THEN prefix_attributes(initial_prefix, category_group, position + 1,
                                         cfi_code_ \o <<char>>)
                  ELSE cfi_code_

\* generate_cfi_code(initial_prefix) of src/cfi_validator_test.py up to its
\* first input(), or to its return when the prefix fills all six positions
Enhanced_generate_cfi_code(initial_prefix) ==
    LET upper_prefix == IF truthy(initial_prefix) THEN upper(initial_prefix.chars) ELSE <<>>
        category == IF /\ Len(upper_prefix) >= 1
                       /\ has_key(Enhanced_CATEGORIES, upper_prefix[1])
                    THEN <<upper_prefix[1]>> ELSE <<>>
        after_category == IF category = <<>> THEN <<>> ELSE upper_prefix
        group == IF /\ Len(after_category) >= 2
                    /\ has_key(Enhanced_GROUPS[category[1]], after_category[2])
                 THEN <<after_category[2]>> ELSE <<>>
        after_group == IF Len(after_category) >= 2 /\ group = <<>>
                       THEN <<after_category[1]>> ELSE after_category
        cfi_code_ == IF Len(after_group) > 2 /\ group # <<>>
                     THEN prefix_attributes(after_group, category[1] \o group[1], 3,
                                            category \o group)
                     ELSE category \o group
        g == [GeneratorNotCalled EXCEPT !.form = "detailed", !.category = category,
                                        !.group = group, !.cfi_code = cfi_code_]
    IN  IF category = <<>> THEN [g EXCEPT !.pc = "category"]
        ELSE IF group = <<>> THEN [g EXCEPT !.pc = "group"]
        ELSE attribute_steps(g, Len(cfi_code_) + 1)

\* one answer to the pending input() of src/cfi_validator_test.py
Enhanced_generate_input(g, answer) ==
    LET attr == upper(answer)
    IN  CASE g.pc = "category" ->
               IF str_in(attr, Enhanced_CATEGORIES)
               THEN [g EXCEPT !.category = attr, !.cfi_code = @ \o attr, !.pc = "group"]
               ELSE g
          [] g.pc = "group" ->
               IF str_in(attr, Enhanced_GROUPS[g.category[1]])
               THEN attribute_steps([g EXCEPT !.group = attr, !.cfi_code = @ \o attr],
                                    Len(g.cfi_code \o attr) + 1)
               ELSE g
          [] g.pc = "attribute" ->
               LET category_group == g.category[1] \o g.group[1]
               IN  IF /\ category_group \in DOMAIN Enhanced_ATTRIBUTES
                      /\ has_key(Enhanced_ATTRIBUTES[category_group], g.position)
                   THEN IF \/ str_in(attr, item(Enhanced_ATTRIBUTES[category_group],
                                                 g.position))
                           \/ attr = <<"X">>
                        THEN Enhanced_append_attribute(g, attr)
                        ELSE g
                   ELSE IF attr = <<>> THEN Enhanced_append_attribute(g, <<"X">>)
                   ELSE IF isalpha(attr) THEN Enhanced_append_attribute(g, attr)
                   ELSE g

----------------------------------------------------------------------------
(* display_cfi_details of both files.  What is printed is a sequence of    *)
(* lines, a line being its pieces.                                         *)

DisplayNotCalled == [status |-> "not called", exception |-> "", lines |-> <<>>]

DisplayReturn(lines) == [status |-> "returned", exception |-> "", lines |-> lines]

\* the exception leaves the lines printed before it
DisplayRaise(exception, lines) == [status |-> "raised", exception |-> exception, lines |-> lines]

\* dict.get(key, 'Unknown')
get_or_unknown(dict, key) == IF has_key(dict, key) THEN item(dict, key) ELSE "Unknown"

\* the line of the character at position pos_index
attribute_line(char, pos_index, category_group) ==
    IF /\ category_group \in DOMAIN ATTRIBUTES
       /\ has_key(ATTRIBUTES[category_group], pos_index)
       /\ has_key(item(ATTRIBUTES[category_group], pos_index), char)
    THEN <<"Attribute ", ToString(pos_index), ": ", char, " - ",
           item(item(ATTRIBUTES[category_group], pos_index), char)>>
    ELSE IF char = "X"
    THEN <<"Attribute ", ToString(pos_index), ": ", char, " - ",
           "Not applicable/Not specified">>
    ELSE <<"Attribute ", ToString(pos_index), ": ", char>>

RECURSIVE display_attributes(_, _, _, _)
\* for pos in range(2, 6): char = cfi_code[pos]
display_attributes(s, category_group, pos, lines) ==
    IF pos >= 6 THEN DisplayReturn(lines)
    ELSE IF pos + 1 > Len(s) THEN DisplayRaise("IndexError", lines)
    ELSE display_attributes(s, category_group, pos + 1,
                            Append(lines, attribute_line(s[pos + 1], pos + 1, category_group)))

\* src/cfi_validator.py
display_cfi_details(code) ==
    IF ~isinstance_str(code) THEN DisplayRaise("AttributeError", <<>>)
    ELSE LET s == upper(code.chars)
         IN  IF Len(s) < 2 THEN DisplayRaise("IndexError", <<>>)
             ELSE LET category == s[1]
                      group == s[2]
                      groups == IF category \in DOMAIN GROUPS THEN GROUPS[category] ELSE <<>>
                  IN  display_attributes(s, category \o group, 2,
                          << <<"CFI Code: ">> \o s,
                             <<"Category (1st): ", category, " - ",
                               get_or_unknown(CATEGORIES, category)>>,
                             <<"Group (2nd): ", group, " - ",
                               get_or_unknown(groups, group)>> >>)

\* for key, value in dict.items(): print(f"  {key} - {value}")
option_lines(dict) == [i \in DOMAIN dict |-> option_line(dict[i][1], dict[i][2])]

\* the lines of position pos but for its options
position_lines(pos, info) ==
    << <<"Position ", ToString(pos), ": ", info.value>>,
       <<"Description: ", info.description>>,
       <<"Meaning: ", info.meaning>> >>

RECURSIVE Enhanced_display_positions(_, _, _, _)
\* for pos in range(1, 7), cfi_code being the argument as passed
Enhanced_display_positions(s, positions_info, pos, lines) ==
    IF pos >= 7 THEN DisplayReturn(lines)
    ELSE LET shown == lines \o position_lines(pos, positions_info[pos])
         IN  IF pos = 1
             THEN Enhanced_display_positions(s, positions_info, pos + 1,
                      Append(shown, <<"Possible options:">>)
                          \o option_lines(Enhanced_CATEGORIES))
             ELSE IF pos = 2
             THEN LET heading == Append(shown, <<"Possible options for category ", s[1], ":">>)
                  IN  IF s[1] \notin DOMAIN Enhanced_GROUPS
                      THEN DisplayRaise("KeyError", heading)
                      ELSE Enhanced_display_positions(s, positions_info, pos + 1,
                               heading \o option_lines(Enhanced_GROUPS[s[1]]))
             ELSE LET category_group == s[1] \o s[2]
                  IN  IF /\ category_group \in DOMAIN Enhanced_ATTRIBUTES
                         /\ has_key(Enhanced_ATTRIBUTES[category_group], pos)
                      THEN Enhanced_display_positions(s, positions_info, pos + 1,
                               Append(shown, <<"Possible options for position ",
                                                ToString(pos), ":">>)
                                   \o option_lines(item(Enhanced_ATTRIBUTES[category_group],
                                                        pos)))
                      ELSE Enhanced_display_positions(s, positions_info, pos + 1,
                               Append(shown,
                                   <<"No specific validation rules for this position.">>))

\* src/cfi_validator_test.py
Enhanced_display_cfi_details(code) ==
    LET outcome == Enhanced_validate(code)
    IN  IF outcome.status = "raised" THEN DisplayRaise(outcome.exception, <<>>)
        ELSE IF ~outcome.is_valid
        THEN DisplayReturn(<< <<"Invalid CFI code: ">> \o outcome.message >>)
        ELSE Enhanced_display_positions(code.chars, outcome.positions_info, 1,
                 << <<"CFI Code: ">> \o code.chars >>)

----------------------------------------------------------------------------
(* Objects.  The tables are class attributes, one object each, shared by   *)
(* every call; positions_info = {} creates an object of the call.  A       *)
(* reference names a table or gives the index of a created object.         *)

\* the tables of both classes as they are after the class bodies have run
Taxonomy ==
    [CATEGORIES |-> CATEGORIES, GROUPS |-> GROUPS, ATTRIBUTES |-> ATTRIBUTES,
     POSITION_DESCRIPTIONS |-> POSITION_DESCRIPTIONS,
     Enhanced_CATEGORIES |-> Enhanced_CATEGORIES, Enhanced_GROUPS |-> Enhanced_GROUPS,
     Enhanced_ATTRIBUTES |-> Enhanced_ATTRIBUTES]

InitialMemory == [taxonomy |-> Taxonomy, created |-> <<>>]

NoReference == [table |-> "", index |-> 0]

load(mem, ref) ==
    IF ref.table # "" THEN mem.taxonomy[ref.table] ELSE mem.created[ref.index]

\* an item assignment through ref
store(mem, ref, value) ==
    IF ref.table # ""
    THEN [mem EXCEPT !.taxonomy[ref.table] = value]
    ELSE [mem EXCEPT !.created[ref.index] = value]

\* new_dict that hands out one dict kept between calls
new_dict_retained(mem) ==
    [ref |-> [table |-> "", index |-> 1],
     mem |-> IF mem.created = <<>> THEN [mem EXCEPT !.created = <<<<>>>>]
             ELSE [mem EXCEPT !.created[1] = <<>>]]

\* positions_info = {}: a new object each time
new_dict(mem) ==
    [ref |-> [table |-> "", index |-> Len(mem.created) + 1],
     mem |-> [mem EXCEPT !.created = Append(@, <<>>)]]

\* validate_begin that takes the descriptions out of POSITION_DESCRIPTIONS
\* with pop(i)
validate_begin_popping_descriptions(mem) ==
    LET dict == new_dict(mem)
    IN  [ref |-> dict.ref,
         mem |-> store(store(dict.mem, dict.ref, initial_positions_info),
                       [table |-> "POSITION_DESCRIPTIONS", index |-> 0], <<>>)]

\* positions_info = {}; for i in range(1, 7): positions_info[i] = {...}
validate_begin(mem) ==
    LET dict == new_dict(mem)
    IN  [ref |-> dict.ref, mem |-> store(dict.mem, dict.ref, initial_positions_info)]

\* the checks before the positions, on the positions_info behind ref
validate_basic(mem, ref, code) ==
    LET outcome == Enhanced_basic_validation(code, load(mem, ref))
    IN  [outcome |-> outcome,
         mem |-> IF outcome.status = "raised" THEN mem
                 ELSE store(mem, ref, outcome.positions_info)]

\* the checks of the positions, on the positions_info behind ref
validate_positions(mem, ref, code) ==
    LET outcome == Enhanced_positional_validation(upper(code.chars), load(mem, ref))
    IN  [outcome |-> outcome,
         mem |-> IF outcome.status = "raised" THEN mem
                 ELSE store(mem, ref, outcome.positions_info)]

\* the objects after a whole validate(code) of src/cfi_validator_test.py
\* whose positions_info the caller has dropped again
memory_after_validate(mem, code) ==
    LET begin == validate_begin(mem)
        basic == validate_basic(begin.mem, begin.ref, code)
        after == IF basic.outcome.status # "continue" THEN basic.mem
                 ELSE validate_positions(basic.mem, begin.ref, code).mem
    IN  [after EXCEPT !.created = mem.created]

\* a call of validate that has not begun
NewCall(form, code) ==
    [form |-> form, code |-> code, pc |-> "begin", ref |-> NoReference,
     outcome |-> NotCalled]

\* is_valid and message of a detailed outcome
returned_values(outcome) ==
    [status |-> outcome.status, exception |-> outcome.exception,
     is_valid |-> outcome.is_valid, message |-> outcome.message]

RECURSIVE generate_answers(_, _)
\* generate_cfi_code() of src/cfi_validator.py reading answers until it
\* returns or waits for an answer that does not come
generate_answers(g, answers) ==
    IF g.pc = "done" \/ answers = <<>> THEN g
    ELSE generate_answers(generate_input(g, Head(answers)), Tail(answers))

RECURSIVE Enhanced_generate_answers(_, _)
\* the same of src/cfi_validator_test.py
Enhanced_generate_answers(g, answers) ==
    IF g.pc = "done" \/ answers = <<>> THEN g
    ELSE Enhanced_generate_answers(Enhanced_generate_input(g, Head(answers)), Tail(answers))

----------------------------------------------------------------------------
(* the calls *)

\* the longest input of a length other than 6
MaxLen == 7

\* code points of the 6-character inputs
CodeAlphabet == {"F", "S", "X", "f", "1", J_CARON}

\* code points of the inputs of the other lengths
LengthAlphabet == {"F", "1", J_CARON}

StrInputs ==
    [1..6 -> CodeAlphabet]
        \cup UNION {[1..n -> LengthAlphabet] : n \in (0..MaxLen) \ {6}}

\* the values a caller can pass: text, None, numbers, lists
Inputs ==
    {PyStr(s) : s \in StrInputs}
        \cup {PyNone, PyInt(0), PyInt(5), PyList(<<>>), PyList(<<"F", "F", "X", "X", "X", "X">>)}

\* only the tables exist and no call is in progress
IdleObjects ==
    /\ memory = InitialMemory
    /\ calls = <<>>

\* nothing is displayed
IdleDisplay ==
    /\ displayed = DisplayNotCalled
    /\ enhanced_displayed = DisplayNotCalled

\* no generator runs
IdleGenerator ==
    /\ generator = GeneratorNotCalled
    /\ passed_prefix = PyNone

\* no lookup is made
NoLookup == [category |-> None, group |-> None, position |-> 0]

IdleIntrospection ==
    /\ lookup = NoLookup
    /\ position_options = OptionsNotCalled
    /\ formatted = FormatNotCalled
    /\ enhanced_formatted = FormatNotCalled

Init ==
    /\ cfi_code \in Inputs
    /\ compact = NotCalled
    /\ detailed = DetailedNotCalled
    /\ IdleIntrospection
    /\ IdleGenerator
    /\ IdleDisplay
    /\ IdleObjects

\* is_valid, message = CFIValidator.validate(cfi_code), src/cfi_validator.py
Validate ==
    /\ compact.status = "not called"
    /\ compact' = validate(cfi_code)
    /\ UNCHANGED <<cfi_code, detailed>>
    /\ UNCHANGED outside_validation
    /\ UNCHANGED memory

\* is_valid, message, positions_info = CFIValidator.validate(cfi_code),
\* src/cfi_validator_test.py
EnhancedValidate ==
    /\ detailed.status = "not called"
    /\ detailed' = Enhanced_validate(cfi_code)
    /\ UNCHANGED <<cfi_code, compact>>
    /\ UNCHANGED outside_validation
    /\ memory' = memory_after_validate(memory, cfi_code)

Next == Validate \/ EnhancedValidate

Spec == Init /\ [][Next]_vars

----------------------------------------------------------------------------
(* the calls on codes of every registered category+group pair *)

\* attribute values of the codes of registered pairs
AttributeAlphabet == {"X", "N", "B"}

\* a registered category, a group of it, and four attribute characters
TaxonomyInputs ==
    UNION {{PyStr(<<c, g>> \o a) : g \in Range(keys(GROUPS[c])),
                                   a \in [1..4 -> AttributeAlphabet]}
           : c \in Range(keys(CATEGORIES))}

InitTaxonomy ==
    /\ cfi_code \in TaxonomyInputs
    /\ compact = NotCalled
    /\ detailed = DetailedNotCalled
    /\ IdleIntrospection
    /\ IdleGenerator
    /\ IdleDisplay
    /\ IdleObjects

SpecTaxonomy == InitTaxonomy /\ [][Next]_vars

----------------------------------------------------------------------------
(* the attribute lookups *)

\* category arguments: None, the empty string, every registered category,
\* an unregistered letter and a lower-case letter
CategoryArguments == {None, "", "Z", "e"} \cup Range(keys(CATEGORIES))

\* group arguments: None, the empty string, groups with and without rules,
\* a letter that is no group of any category
GroupArguments == {None, "", "S", "F", "X", "I", "B", "Q", "Z"}

\* position arguments, 0 and 7 being no position of a code
PositionArguments == 0..7

NoValidation ==
    /\ cfi_code = PyNone
    /\ compact = NotCalled
    /\ detailed = DetailedNotCalled

InitIntrospection ==
    /\ lookup \in [category : CategoryArguments, group : GroupArguments,
                    position : PositionArguments]
    /\ position_options = OptionsNotCalled
    /\ formatted = FormatNotCalled
    /\ enhanced_formatted = FormatNotCalled
    /\ NoValidation
    /\ IdleGenerator
    /\ IdleDisplay
    /\ IdleObjects

\* CFIValidator.get_position_options(category, group, position)
GetPositionOptions ==
    /\ position_options.status = "not called"
    /\ position_options' = get_position_options(lookup.category, lookup.group, lookup.position)
    /\ UNCHANGED <<lookup, formatted, enhanced_formatted>>
    /\ UNCHANGED outside_introspection
    /\ UNCHANGED memory

\* CFIValidator.format_attribute_options(...), src/cfi_validator.py
FormatAttributeOptions ==
    /\ formatted.status = "not called"
    /\ formatted' = format_attribute_options(lookup.category, lookup.group, lookup.position)
    /\ UNCHANGED <<lookup, position_options, enhanced_formatted>>
    /\ UNCHANGED outside_introspection
    /\ UNCHANGED memory

\* CFIValidator.format_attribute_options(...), src/cfi_validator_test.py
EnhancedFormatAttributeOptions ==
    /\ enhanced_formatted.status = "not called"
    /\ enhanced_formatted' =
          Enhanced_format_attribute_options(lookup.category, lookup.group, lookup.position)
    /\ UNCHANGED <<lookup, position_options, formatted>>
    /\ UNCHANGED outside_introspection
    /\ UNCHANGED memory

NextIntrospection ==
    GetPositionOptions \/ FormatAttributeOptions \/ EnhancedFormatAttributeOptions

SpecIntrospection == InitIntrospection /\ [][NextIntrospection]_vars


----------------------------------------------------------------------------
(* the generator *)

\* the longest initial prefix over PrefixAlphabet
MaxPrefixLen == 3

PrefixAlphabet == {"F", "X", "f", "1"}

\* initial prefixes: none, short ones, a whole code, a code and one more
\* character, one that upper() lengthens
Prefixes ==
    {PyNone}
        \cup {PyStr(p) : p \in UNION {[1..n -> PrefixAlphabet] : n \in 0..MaxPrefixLen}}
        \cup {PyStr(<<"F", "F", "X", "S", "P", "X">>),
              PyStr(<<"F", "F", "X", "S", "X", "X", "F">>),
              PyStr(<<"F", "X", J_CARON>>)}

\* what the user types at a prompt
Answers == {<<>>, <<"F">>, <<"f">>, <<"X">>, <<"S">>, <<"1">>, <<"F", "X">>}

InitGenerator ==
    /\ generator = GeneratorNotCalled
    /\ passed_prefix = PyNone
    /\ NoValidation
    /\ IdleIntrospection
    /\ IdleDisplay
    /\ IdleObjects

\* CFIValidator.generate_cfi_code() of src/cfi_validator.py, to its first input()
GenerateCfiCode ==
    /\ generator.pc = "not called"
    /\ generator' = [GeneratorNotCalled EXCEPT !.form = "compact", !.pc = "category"]
    /\ UNCHANGED passed_prefix
    /\ UNCHANGED outside_generator
    /\ UNCHANGED memory

\* CFIValidator.generate_cfi_code(initial_prefix) of src/cfi_validator_test.py
EnhancedGenerateCfiCode ==
    /\ generator.pc = "not called"
    /\ \E initial_prefix \in Prefixes :
          /\ passed_prefix' = initial_prefix
          /\ generator' = Enhanced_generate_cfi_code(initial_prefix)
    /\ UNCHANGED outside_generator
    /\ memory' = IF generator'.pc = "done"
                 THEN memory_after_validate(memory, PyStr(generator'.cfi_code))
                 ELSE memory

\* the user answers the pending input() of src/cfi_validator.py
GenerateInput ==
    /\ generator.form = "compact"
    /\ generator.pc \in {"category", "group", "attribute"}
    /\ \E answer \in Answers : generator' = generate_input(generator, answer)
    /\ UNCHANGED passed_prefix
    /\ UNCHANGED outside_generator
    /\ UNCHANGED memory

\* the user answers the pending input() of src/cfi_validator_test.py
EnhancedGenerateInput ==
    /\ generator.form = "detailed"
    /\ generator.pc \in {"category", "group", "attribute"}
    /\ \E answer \in Answers : generator' = Enhanced_generate_input(generator, answer)
    /\ UNCHANGED passed_prefix
    /\ UNCHANGED outside_generator
    /\ memory' = IF generator'.pc = "done"
                 THEN memory_after_validate(memory, PyStr(generator'.cfi_code))
                 ELSE memory

NextGenerator ==
    GenerateCfiCode \/ EnhancedGenerateCfiCode \/ GenerateInput \/ EnhancedGenerateInput

SpecGenerator == InitGenerator /\ [][NextGenerator]_vars


----------------------------------------------------------------------------
(* the displays *)

\* code points of the displayed 6-character codes
DisplayAlphabet == {"F", "X", "f", "1"}

\* the longest displayed text of a length other than 6
MaxDisplayLen == 7

DisplayInputs ==
    {PyStr(s) : s \in [1..6 -> DisplayAlphabet]
                        \cup UNION {[1..n -> {"F", "X"}] : n \in (0..MaxDisplayLen) \ {6}}}
        \cup {PyStr(<<"F", "X", "F", "F", "F", J_CARON>>), PyNone, PyInt(5), PyList(<<>>)}

InitDisplay ==
    /\ cfi_code \in DisplayInputs
    /\ compact = NotCalled
    /\ detailed = DetailedNotCalled
    /\ IdleDisplay
    /\ IdleObjects
    /\ IdleIntrospection
    /\ IdleGenerator

\* display_cfi_details(cfi_code), src/cfi_validator.py
DisplayCfiDetails ==
    /\ displayed.status = "not called"
    /\ displayed' = display_cfi_details(cfi_code)
    /\ UNCHANGED <<cfi_code, enhanced_displayed>>
    /\ UNCHANGED outside_display
    /\ UNCHANGED memory

\* display_cfi_details(cfi_code), src/cfi_validator_test.py
EnhancedDisplayCfiDetails ==
    /\ enhanced_displayed.status = "not called"
    /\ enhanced_displayed' = Enhanced_display_cfi_details(cfi_code)
    /\ UNCHANGED <<cfi_code, displayed>>
    /\ UNCHANGED outside_display
    /\ memory' = memory_after_validate(memory, cfi_code)

NextDisplay == DisplayCfiDetails \/ EnhancedDisplayCfiDetails

SpecDisplay == InitDisplay /\ [][NextDisplay]_vars


----------------------------------------------------------------------------
(* validations side by side: each call of validate advances by itself,     *)
(* between the steps of the others                                         *)

\* the number of calls in progress
NumCalls == 2

ConcurrentInputs ==
    {PyStr(<<"F", "F", "X", "S", "P", "X">>), PyStr(<<"F", "F", "X", "Z", "P", "X">>),
     PyStr(<<"e", "s", "v", "n", "f", "b">>), PyStr(<<"F", "X", "F", "F", "F", "F">>),
     PyStr(<<"F", "S", "X", "X", "X", "X">>), PyStr(<<"F", "X", "1", "X", "X", "X">>),
     PyStr(<<"F", "X">>), PyNone}

InitConcurrent ==
    /\ calls \in [1..NumCalls -> {NewCall(form, code) : form \in {"compact", "detailed"},
                                                       code \in ConcurrentInputs}]
    /\ memory = InitialMemory
    /\ NoValidation
    /\ IdleIntrospection
    /\ IdleGenerator
    /\ IdleDisplay

\* a whole validate(code) of src/cfi_validator.py, which creates no object
CompactCall(c) ==
    /\ calls[c].form = "compact"
    /\ calls[c].pc = "begin"
    /\ calls' = [calls EXCEPT ![c].pc = "done", ![c].outcome = validate(calls[c].code)]
    /\ UNCHANGED memory
    /\ UNCHANGED outside_calls

\* validate(code) of src/cfi_validator_test.py builds its positions_info
Begin(c) ==
    /\ calls[c].form = "detailed"
    /\ calls[c].pc = "begin"
    /\ LET begin == validate_begin(memory)
       IN  /\ memory' = begin.mem
           /\ calls' = [calls EXCEPT ![c].pc = "basic", ![c].ref = begin.ref]
    /\ UNCHANGED outside_calls

\* ... makes the checks of type, length and letters
BasicValidation(c) ==
    /\ calls[c].pc = "basic"
    /\ LET basic == validate_basic(memory, calls[c].ref, calls[c].code)
       IN  /\ memory' = basic.mem
           /\ calls' = IF basic.outcome.status = "continue"
                        THEN [calls EXCEPT ![c].pc = "positions"]
                        ELSE [calls EXCEPT ![c].pc = "done",
                                           ![c].outcome = returned_values(basic.outcome)]
    /\ UNCHANGED outside_calls

\* ... checks the positions and returns
PositionalValidation(c) ==
    /\ calls[c].pc = "positions"
    /\ LET positions == validate_positions(memory, calls[c].ref, calls[c].code)
       IN  /\ memory' = positions.mem
           /\ calls' = [calls EXCEPT ![c].pc = "done",
                                      ![c].outcome = returned_values(positions.outcome)]
    /\ UNCHANGED outside_calls

NextConcurrent ==
    \E c \in 1..NumCalls :
        CompactCall(c) \/ Begin(c) \/ BasicValidation(c) \/ PositionalValidation(c)

SpecConcurrent == InitConcurrent /\ [][NextConcurrent]_vars

----------------------------------------------------------------------------
(* a session: the operations called in any order on one input              *)

SessionInputs ==
    {PyStr(<<"F", "F", "X", "S", "P", "X">>), PyStr(<<"F", "X", "1", "X", "X", "X">>), PyNone}

SessionLookups ==
    {[category |-> "F", group |-> "F", position |-> 4],
     [category |-> "Z", group |-> None, position |-> 2]}

\* the answers typed during one run of a generator
SessionAnswers ==
    {<<<<"1">>, <<"f">>, <<"F">>, <<>>, <<"S">>, <<"1">>, <<>>, <<>>>>,
     <<<<"F">>, <<"X">>, <<"1">>, <<>>, <<>>, <<>>>>,
     <<<<"F">>, <<"X">>, <<"F", "X">>, <<>>, <<>>, <<>>>>}

SessionPrefixes == {PyNone, PyStr(<<"F", "F">>)}

InitSession ==
    /\ cfi_code \in SessionInputs
    /\ compact = NotCalled
    /\ detailed = DetailedNotCalled
    /\ lookup \in SessionLookups
    /\ position_options = OptionsNotCalled
    /\ formatted = FormatNotCalled
    /\ enhanced_formatted = FormatNotCalled
    /\ IdleGenerator
    /\ IdleDisplay
    /\ IdleObjects

\* a run of generate_cfi_code() of src/cfi_validator.py
SessionGenerateCfiCode ==
    /\ \E answers \in SessionAnswers :
          generator' = generate_answers(
              [GeneratorNotCalled EXCEPT !.form = "compact", !.pc = "category"], answers)
    /\ UNCHANGED passed_prefix
    /\ UNCHANGED memory
    /\ UNCHANGED outside_generator

\* a run of generate_cfi_code(initial_prefix) of src/cfi_validator_test.py
SessionEnhancedGenerateCfiCode ==
    /\ \E answers \in SessionAnswers, initial_prefix \in SessionPrefixes :
          /\ passed_prefix' = initial_prefix
          /\ generator' = Enhanced_generate_answers(
                 Enhanced_generate_cfi_code(initial_prefix), answers)
    /\ memory' = IF generator'.pc = "done"
                 THEN memory_after_validate(memory, PyStr(generator'.cfi_code))
                 ELSE memory
    /\ UNCHANGED outside_generator

NextSession ==
    \/ Validate
    \/ EnhancedValidate
    \/ GetPositionOptions
    \/ FormatAttributeOptions
    \/ EnhancedFormatAttributeOptions
    \/ DisplayCfiDetails
    \/ EnhancedDisplayCfiDetails
    \/ SessionGenerateCfiCode
    \/ SessionEnhancedGenerateCfiCode

SpecSession == InitSession /\ [][NextSession]_vars


----------------------------------------------------------------------------
(* vocabulary of the properties *)

\* the three precondition messages
EmptyOrWrongType == <<"CFI code must be a string">>

InvalidLength == <<"CFI code must be exactly 6 characters">>

NonAlphabetic == <<"CFI code must contain only alphabetic characters">>

\* the letters A-Z and a-z
AsciiLetters == Range(ascii_uppercase) \cup Range(ascii_lowercase)

IsText == cfi_code.type = "str"

\* the normalised (uppercased) form of a text input
Normalized == upper(cfi_code.chars)

CompactDone == compact.status # "not called"

DetailedDone == detailed.status # "not called"

\* character p of the sequence u is legal given the characters before it:
\* a registered category, a group of that category, a listed value of a
\* pair with rules, any letter for a pair without rules
LegalAt(u, p) ==
    /\ p <= Len(u)
    /\ CASE p = 1 -> has_key(CATEGORIES, u[1])
         [] p = 2 -> u[1] \in DOMAIN GROUPS /\ has_key(GROUPS[u[1]], u[2])
         [] OTHER ->
              IF (u[1] \o u[2]) \in DOMAIN ATTRIBUTES
              THEN /\ has_key(ATTRIBUTES[u[1] \o u[2]], p)
                   /\ has_key(item(ATTRIBUTES[u[1] \o u[2]], p), u[p])
              ELSE char_isalpha(u[p])

\* the checks in their order: 1 text, 2 length, 3 alphabetic, 4 category,
\* 5 group, 6..9 attribute at position 3..6
Violates(v, k) ==
    CASE k = 1 -> v.type # "str" \/ v.chars = <<>>
      [] k = 2 -> Len(v.chars) # 6
      [] k = 3 -> \E i \in DOMAIN v.chars : ~char_isalpha(v.chars[i])
      [] OTHER -> ~LegalAt(upper(v.chars), k - 3)

\* the first violated check, 0 when every check passes
FirstViolated(v) ==
    IF \A k \in 1..9 : ~Violates(v, k) THEN 0
    ELSE CHOOSE k \in 1..9 : Violates(v, k) /\ \A j \in 1..(k - 1) : ~Violates(v, j)

\* the check a message reports: 0 for the success message
ReportedCheck(message) ==
    CASE message = EmptyOrWrongType -> 1
      [] message = InvalidLength -> 2
      [] message = NonAlphabetic -> 3
      [] message[1] = "Invalid category '" -> 4
      [] message[1] = "Invalid group '" -> 5
      [] message[1] = "Invalid attribute '" ->
             CHOOSE k \in 6..9 : ToString(k - 3) = message[4]
      [] message[1] = "Character at position " ->
             CHOOSE k \in 6..9 : ToString(k - 3) = message[2]
      [] message[1] = "Valid CFI code for " -> 0

\* the option codes a message lists after its first n pieces
ListedOptions(message, n) ==
    {message[i] : i \in {j \in (n + 1)..Len(message) : (j - n) % 2 = 1}}

\* c.lower() of one code point; the non-ASCII code points of the model are
\* lower case already
char_lower(c) ==
    CASE c \in Range(ascii_uppercase) -> <<ascii_lowercase[IndexOf(ascii_uppercase, c)]>>
      [] OTHER -> <<c>>

RECURSIVE lower(_)
\* s.lower(), the lowercased form of a text
lower(s) == IF s = <<>> THEN <<>> ELSE char_lower(Head(s)) \o lower(Tail(s))

\* a position record nothing was written to
Unresolved(record) ==
    /\ record.value = None
    /\ record.meaning = None
    /\ record.valid = None
    /\ record.error = NoError

\* the input is a text of 6 letters A-Z, a-z
SixAsciiLetters ==
    /\ IsText
    /\ Len(cfi_code.chars) = 6
    /\ \A i \in 1..6 : cfi_code.chars[i] \in AsciiLetters

----------------------------------------------------------------------------
(* C1: validate, compact and detailed, returns valid exactly when the      *)
(* input is a text of 6 letters (A-Z, a-z) whose uppercased form has a     *)
(* registered category at position 1, a group of that category at position *)
(* 2 and, when the pair has attribute rules, a listed value at each of     *)
(* positions 3-6; for every other input it returns invalid.                *)

C1_WellFormed ==
    /\ IsText
    /\ Len(cfi_code.chars) = 6
    /\ \A i \in 1..6 : cfi_code.chars[i] \in AsciiLetters
    /\ \A p \in 1..6 : LegalAt(Normalized, p)

C1_ValidExactlyWhenWellFormed ==
    /\ CompactDone => (compact.status = "returned" /\ compact.is_valid = C1_WellFormed)
    /\ DetailedDone => (detailed.status = "returned" /\ detailed.is_valid = C1_WellFormed)

----------------------------------------------------------------------------
(* C2: the outcome reports the first failing check in the order text,      *)
(* length, alphabetic, category, group, attribute 3, 4, 5, 6; an input     *)
(* that violates several checks gets the error of the earliest one only.   *)

C2_FirstFailingCheckReported ==
    /\ CompactDone =>
          /\ compact.status = "returned"
          /\ ReportedCheck(compact.message) = FirstViolated(cfi_code)
          /\ compact.is_valid = (FirstViolated(cfi_code) = 0)
    /\ DetailedDone =>
          /\ detailed.status = "returned"
          /\ ReportedCheck(detailed.message) = FirstViolated(cfi_code)
          /\ detailed.is_valid = (FirstViolated(cfi_code) = 0)

\* an input violating the length and the alphabetic check, and one violating
\* two attribute checks, have been validated in both forms
C2_Witness ==
    /\ CompactDone /\ DetailedDone
    /\ \/ Violates(cfi_code, 2) /\ Violates(cfi_code, 3) /\ ~Violates(cfi_code, 1)
       \/ /\ FirstViolated(cfi_code) = 6
          /\ Violates(cfi_code, 7)
          /\ ReportedCheck(detailed.message) = 6

----------------------------------------------------------------------------
(* C3: for every string of a length other than 6 (1-5, 7 or more),         *)
(* whatever its characters, both forms return invalid with the             *)
(* InvalidLength message; the empty string is reported as                  *)
(* EmptyOrWrongType instead.                                               *)

\* as claimed: every length other than 6, the empty string included
C3_EveryOtherLengthIsInvalidLength ==
    (IsText /\ Len(cfi_code.chars) # 6) =>
        /\ CompactDone => compact = Return(FALSE, InvalidLength)
        /\ DetailedDone => detailed = DetailedReturn(FALSE, InvalidLength, initial_positions_info)

C3_NonEmptyOtherLengthIsInvalidLength ==
    (IsText /\ Len(cfi_code.chars) \notin {0, 6}) =>
        /\ CompactDone => compact = Return(FALSE, InvalidLength)
        /\ DetailedDone => detailed = DetailedReturn(FALSE, InvalidLength, initial_positions_info)

\* a string longer than 6 and one shorter, with a non-letter, validated
C3_Witness ==
    /\ IsText /\ CompactDone /\ DetailedDone
    /\ Len(cfi_code.chars) > 6
    /\ \E i \in DOMAIN cfi_code.chars : ~char_isalpha(cfi_code.chars[i])
    /\ compact.message = InvalidLength

----------------------------------------------------------------------------
(* C4: when detailed validate fails at a positional check, the one record  *)
(* with valid = False, carrying the error text, is at the smallest         *)
(* position k whose character is illegal given the characters before it;   *)
(* every record before k is valid with its value and meaning, every record *)
(* after k is unresolved.  When it fails on a precondition all six records *)
(* are unresolved.                                                         *)

C4_FailureAtFirstIllegalPosition ==
    (DetailedDone /\ ~detailed.is_valid) =>
        LET info == detailed.positions_info
            first == FirstViolated(cfi_code)
            k == first - 3
        IN  /\ detailed.status = "returned"
            /\ first # 0
            /\ first \in 1..3 => \A p \in 1..6 : Unresolved(info[p])
            /\ first \in 4..9 =>
                  /\ info[k].valid = False
                  /\ info[k].value = Normalized[k]
                  /\ info[k].error # NoError
                  /\ info[k].error = detailed.message
                  /\ \A p \in 1..6 : info[p].valid = False => p = k
                  /\ \A p \in 1..(k - 1) :
                        /\ info[p].valid = True
                        /\ info[p].value = Normalized[p]
                        /\ info[p].meaning # None
                        /\ info[p].error = NoError
                  /\ \A p \in (k + 1)..6 : Unresolved(info[p])

\* a failure at position 4: three records resolved, two left unresolved
C4_Witness ==
    /\ DetailedDone
    /\ ~detailed.is_valid
    /\ FirstViolated(cfi_code) = 7
    /\ detailed.positions_info[4].valid = False

----------------------------------------------------------------------------
(* C5: for every string s of 6 letters A-Z, a-z, validate(s), validate of  *)
(* s uppercased and validate of s lowercased return the same flag, the     *)
(* same message and, in the detailed form, the same six records.           *)

C5_CaseInsensitive ==
    SixAsciiLetters =>
        /\ CompactDone =>
              /\ compact = validate(PyStr(upper(cfi_code.chars)))
              /\ compact = validate(PyStr(lower(cfi_code.chars)))
        /\ DetailedDone =>
              /\ detailed = Enhanced_validate(PyStr(upper(cfi_code.chars)))
              /\ detailed = Enhanced_validate(PyStr(lower(cfi_code.chars)))

\* a valid code written with a lower-case letter, validated in both forms
C5_Witness ==
    /\ SixAsciiLetters
    /\ cfi_code.chars # upper(cfi_code.chars)
    /\ cfi_code.chars # lower(cfi_code.chars)
    /\ CompactDone /\ compact.is_valid
    /\ DetailedDone /\ detailed.is_valid

----------------------------------------------------------------------------
(* C6: whenever detailed validate returns valid, each of the six records   *)
(* has valid = True, a value, a meaning and no error; whenever a record    *)
(* has valid = False the overall result is invalid.                        *)

C6_ValidMeansAllResolved ==
    DetailedDone =>
        LET info == detailed.positions_info
        IN  /\ detailed.is_valid =>
                  \A p \in 1..6 :
                      /\ info[p].valid = True
                      /\ info[p].value # None
                      /\ info[p].meaning # None
                      /\ info[p].error = NoError
            /\ (\E p \in 1..6 : info[p].valid = False) => ~detailed.is_valid

\* a code of a pair with attribute rules was accepted
C6_Witness ==
    /\ DetailedDone
    /\ detailed.is_valid
    /\ (Normalized[1] \o Normalized[2]) \in DOMAIN Enhanced_ATTRIBUTES

----------------------------------------------------------------------------
(* C7: the compact validate of src/cfi_validator.py and the detailed       *)
(* validate of src/cfi_validator_test.py agree on every input: the same    *)
(* validity flag and the same message; the CATEGORIES, GROUPS and          *)
(* ATTRIBUTES tables of the two files are equal.                           *)

C7_CompactAndDetailedAgree ==
    /\ CATEGORIES = Enhanced_CATEGORIES
    /\ GROUPS = Enhanced_GROUPS
    /\ ATTRIBUTES = Enhanced_ATTRIBUTES
    /\ (CompactDone /\ DetailedDone) =>
          /\ compact.status = detailed.status
          /\ compact.exception = detailed.exception
          /\ compact.is_valid = detailed.is_valid
          /\ compact.message = detailed.message

\* both forms were called on a 6-letter input and failed at an attribute
\* of a pair without rules
C7_Witness ==
    /\ CompactDone /\ DetailedDone
    /\ FirstViolated(cfi_code) \in 6..9
    /\ (Normalized[1] \o Normalized[2]) \notin DOMAIN ATTRIBUTES
    /\ ~compact.is_valid

----------------------------------------------------------------------------
(* C8: for every 6-character string with at least one character outside    *)
(* A-Z and a-z (digits, punctuation, spaces, letters that are not ASCII    *)
(* letters) validate returns invalid with the NonAlphabetic message.       *)

C8_OutsideAsciiLettersIsNonAlphabetic ==
    (/\ IsText
     /\ Len(cfi_code.chars) = 6
     /\ \E i \in 1..6 : cfi_code.chars[i] \notin AsciiLetters) =>
        /\ CompactDone => compact = Return(FALSE, NonAlphabetic)
        /\ DetailedDone =>
              detailed = DetailedReturn(FALSE, NonAlphabetic, initial_positions_info)

----------------------------------------------------------------------------
(* C9: for every input value, text or not, both forms return an ordinary   *)
(* result and never raise; an empty or non-text input returns invalid with *)
(* the EmptyOrWrongType message.                                           *)

C9_NeverRaises ==
    /\ CompactDone => compact.status = "returned"
    /\ DetailedDone => detailed.status = "returned"
    /\ (~IsText \/ cfi_code.chars = <<>>) =>
          /\ CompactDone => compact = Return(FALSE, EmptyOrWrongType)
          /\ DetailedDone =>
                detailed = DetailedReturn(FALSE, EmptyOrWrongType, initial_positions_info)

\* a non-text value that is not falsy (a number, a non-empty list) was
\* passed to both forms
C9_Witness ==
    /\ ~IsText
    /\ truthy(cfi_code)
    /\ CompactDone /\ DetailedDone

----------------------------------------------------------------------------
(* C10: a positional failure message lists exactly the legal alternatives  *)
(* at the failing point: every registered category code for an unknown     *)
(* category; the group codes of the code's category for an unknown group;  *)
(* the 1-indexed position and every legal value of the pair at that        *)
(* position for an illegal attribute of a pair with rules.  ESAXXX fails   *)
(* at position 3 listing V, N, R, X.                                       *)

\* the pieces of message after the first n are exactly the codes of options,
\* each once, separated by ", "
ListsExactly(message, n, options) ==
    /\ Len(message) = n + 2 * Len(options) - 1
    /\ ListedOptions(message, n) = Range(keys(options))
    /\ \A i \in 1..Len(options) : message[n + 2 * i - 1] = options[i][1]

C10_ListsLegalAlternatives(message) ==
    LET first == FirstViolated(cfi_code)
        u == Normalized
    IN  /\ first = 4 => ListsExactly(message, 3, CATEGORIES)
        /\ first = 5 => ListsExactly(message, 5, GROUPS[u[1]])
        /\ (first \in 6..9 /\ (u[1] \o u[2]) \in DOMAIN ATTRIBUTES) =>
              /\ message[4] = ToString(first - 3)
              /\ message[6] = u[1] \o u[2]
              /\ ListsExactly(message, 7, item(ATTRIBUTES[u[1] \o u[2]], first - 3))

C10_MessageListsLegalAlternatives ==
    /\ CompactDone => C10_ListsLegalAlternatives(compact.message)
    /\ DetailedDone => C10_ListsLegalAlternatives(detailed.message)
    /\ validate(PyStr(<<"E", "S", "A", "X", "X", "X">>)).message =
          <<"Invalid attribute '", "A", "' at position ", "3", " for ", "ES",
            ". Valid options: ", "V", ", ", "N", ", ", "R", ", ", "X">>

\* an unknown group, and an illegal attribute at position 4 of a pair with
\* rules, were reported by both forms
C10_Witness ==
    /\ CompactDone /\ DetailedDone
    /\ \/ FirstViolated(cfi_code) = 5
       \/ /\ FirstViolated(cfi_code) = 7
          /\ (Normalized[1] \o Normalized[2]) \in DOMAIN ATTRIBUTES

----------------------------------------------------------------------------
(* C11: for a legal category+group pair without attribute rules, every     *)
(* letter (A-Z, a-z) at positions 3-6 is accepted and validation never     *)
(* fails at positions 3-6; the record of such a position carries the       *)
(* "Custom attribute (no predefined meaning)" label as its meaning, except *)
(* that the character X carries "Not applicable/Not specified".            *)

\* the input is 6 letters whose category and group are legal and whose pair
\* has no attribute rules
C11_LegalPairWithoutRules ==
    /\ SixAsciiLetters
    /\ LegalAt(Normalized, 1)
    /\ LegalAt(Normalized, 2)
    /\ (Normalized[1] \o Normalized[2]) \notin DOMAIN Enhanced_ATTRIBUTES

\* as claimed: the generic label at every one of positions 3-6
C11_GenericLabelAtEveryPosition ==
    (C11_LegalPairWithoutRules /\ DetailedDone) =>
        /\ detailed.is_valid
        /\ \A p \in 3..6 :
              /\ detailed.positions_info[p].valid = True
              /\ detailed.positions_info[p].meaning = "Custom attribute (no predefined meaning)"

C11_PermissiveFallback ==
    C11_LegalPairWithoutRules =>
        /\ CompactDone => compact.is_valid
        /\ DetailedDone =>
              /\ detailed.is_valid
              /\ \A p \in 3..6 :
                    /\ detailed.positions_info[p].valid = True
                    /\ detailed.positions_info[p].value = Normalized[p]
                    /\ detailed.positions_info[p].meaning =
                          IF Normalized[p] = "X"
                          THEN "Not applicable/Not specified"
                          ELSE "Custom attribute (no predefined meaning)"

\* a code of a pair without rules, with X at one attribute position and
\* another letter at another, was validated in both forms
C11_Witness ==
    /\ C11_LegalPairWithoutRules
    /\ CompactDone /\ DetailedDone
    /\ \E p, q \in 3..6 : Normalized[p] = "X" /\ Normalized[q] # "X"

----------------------------------------------------------------------------
(* C12: for every category+group pair with attribute rules and every       *)
(* position 3-6, the character X at that position is accepted: validation  *)
(* never fails at a position holding X, so <pair>XXXX is valid for every   *)
(* pair with rules.                                                        *)

\* the input is a code of a legal pair that has attribute rules
C12_PairWithRules ==
    /\ SixAsciiLetters
    /\ LegalAt(Normalized, 1)
    /\ LegalAt(Normalized, 2)
    /\ (Normalized[1] \o Normalized[2]) \in DOMAIN ATTRIBUTES

C12_XAlwaysAccepted ==
    C12_PairWithRules =>
        /\ \A p \in 3..6 :
              Normalized[p] = "X" =>
                  /\ CompactDone => (compact.is_valid \/ ReportedCheck(compact.message) # p + 3)
                  /\ DetailedDone =>
                        /\ detailed.is_valid \/ ReportedCheck(detailed.message) # p + 3
                        /\ detailed.positions_info[p].valid # False
        /\ (\A p \in 3..6 : Normalized[p] = "X") =>
              /\ CompactDone => compact.is_valid
              /\ DetailedDone =>
                    /\ detailed.is_valid
                    /\ \A p \in 3..6 : detailed.positions_info[p].valid = True

\* ESXXXX was validated in both forms
C12_Witness ==
    /\ cfi_code = PyStr(<<"E", "S", "X", "X", "X", "X">>)
    /\ CompactDone /\ compact.is_valid
    /\ DetailedDone /\ detailed.is_valid

----------------------------------------------------------------------------
(* C13: for every valid code record i holds the i-th character of the      *)
(* uppercased code; the meaning at position 1 is the category's            *)
(* description, at position 2 the group's description under that category, *)
(* at positions 3-6 of a pair with rules the table's description of that   *)
(* value for that pair and position; the summary message names the same    *)
(* category and group descriptions.  ESVNFB gives Equities, Shares,        *)
(* Voting, Free, Fully paid, Bearer.                                       *)

C13_DecompositionOf(result, u) ==
    LET info == result.positions_info
        pair == u[1] \o u[2]
    IN  /\ \A i \in 1..6 : info[i].value = u[i]
        /\ info[1].meaning = item(CATEGORIES, u[1])
        /\ info[2].meaning = item(GROUPS[u[1]], u[2])
        /\ pair \in DOMAIN ATTRIBUTES =>
              \A p \in 3..6 : info[p].meaning = item(item(ATTRIBUTES[pair], p), u[p])
        /\ result.message =
              <<"Valid CFI code for ", item(CATEGORIES, u[1]), " - ", item(GROUPS[u[1]], u[2])>>

C13_DecompositionFromTables ==
    /\ (DetailedDone /\ detailed.is_valid) => C13_DecompositionOf(detailed, Normalized)
    /\ (CompactDone /\ compact.is_valid) =>
          compact.message =
              <<"Valid CFI code for ", item(CATEGORIES, Normalized[1]), " - ",
                item(GROUPS[Normalized[1]], Normalized[2])>>
    /\ LET example == Enhanced_validate(PyStr(<<"E", "S", "V", "N", "F", "B">>))
       IN  /\ example.is_valid
           /\ example.message = <<"Valid CFI code for ", "Equities", " - ", "Shares">>
           /\ [i \in 1..6 |-> example.positions_info[i].meaning] =
                 <<"Equities", "Shares", "Voting", "Free", "Fully paid", "Bearer">>

\* a code of a pair with rules, with values other than X, was accepted
C13_Witness ==
    /\ cfi_code = PyStr(<<"E", "S", "X", "N", "X", "B">>)
    /\ CompactDone /\ compact.is_valid
    /\ DetailedDone /\ detailed.is_valid

----------------------------------------------------------------------------
(* C14: get_position_options(category, group, position), for a position    *)
(* 3-6 and a category and group that are non-empty text, returns the       *)
(* explicit value-to-description mapping of that pair and position when    *)
(* one exists and otherwise the single-entry mapping                       *)
(* {X: "Not applicable/Not specified"}; format_attribute_options renders   *)
(* exactly the same options.  With a category or group that is None or     *)
(* empty it returns the empty mapping.                                     *)

\* the mapping the claim names for the looked-up pair and position
C14_ExpectedOptions ==
    LET pair == lookup.category \o lookup.group
    IN  IF pair \in DOMAIN ATTRIBUTES /\ has_key(ATTRIBUTES[pair], lookup.position)
        THEN item(ATTRIBUTES[pair], lookup.position)
        ELSE <<<<"X", "Not applicable/Not specified">>>>

\* the <<key, value>> pairs a rendering shows
C14_Rendered(result) == [i \in DOMAIN result.lines |-> <<result.lines[i][2], result.lines[i][4]>>]

----------------------------------------------------------------------------
(* C15: a lookup for something not registered returns a typed failure,     *)
(* never a mapping: the groups of an unregistered category fail with       *)
(* UnknownCategory; the attribute options of an unregistered category, or  *)
(* of a group not registered under the category, fail instead of returning *)
(* an empty mapping or the {X: ...} default.                               *)

\* the looked-up category is no registered category
C15_UnregisteredCategory ==
    lookup.category = None \/ ~has_key(CATEGORIES, lookup.category)

\* the looked-up group is no group of the looked-up category
C15_UnregisteredGroup ==
    \/ C15_UnregisteredCategory
    \/ lookup.group = None
    \/ ~has_key(GROUPS[lookup.category], lookup.group)

C15_UnregisteredLookupFails ==
    position_options.status # "not called" =>
        /\ (lookup.position = 2 /\ C15_UnregisteredCategory) => position_options.status # "returned"
        /\ (lookup.position \in 3..6 /\ C15_UnregisteredGroup) => position_options.status # "returned"

----------------------------------------------------------------------------
(* C18: generate_cfi_code passes the assembled code through validate       *)
(* before returning: every value it returns other than None is a code      *)
(* that validate accepts, and when validate rejects the assembled code it  *)
(* returns None, for every sequence of answers and every initial prefix.   *)

GeneratorDone == generator.pc = "done"

\* the assembled code is accepted by validate of either file
C18_Accepted(code) ==
    /\ validate(code).is_valid
    /\ Enhanced_validate(code).is_valid

C18_ReturnsOnlyValidatedCodes ==
    GeneratorDone =>
        /\ generator.result # PyNone =>
              /\ generator.result = PyStr(generator.cfi_code)
              /\ C18_Accepted(generator.result)
        /\ ~C18_Accepted(PyStr(generator.cfi_code)) => generator.result = PyNone

\* six answers were assembled into a code that validate rejects
C18_Witness ==
    /\ GeneratorDone
    /\ Len(generator.cfi_code) = 6
    /\ ~C18_Accepted(PyStr(generator.cfi_code))
    /\ generator.result = PyNone

----------------------------------------------------------------------------
(* C19: at every step the generator accepts only an answer the validator   *)
(* would accept at that position, so for every sequence of answers and     *)
(* every initial prefix the assembled code passes the final validate: the  *)
(* "generated code is not valid" outcome, returning None, is unreachable.  *)

C19_GeneratedCodeAlwaysValid ==
    GeneratorDone =>
        /\ C18_Accepted(PyStr(generator.cfi_code))
        /\ generator.result # PyNone

----------------------------------------------------------------------------
(* C20: display_cfi_details of either file, given a code that validate     *)
(* rejects, renders no position details: it reports the code invalid, and  *)
(* never prints a partial or "Unknown" breakdown and never raises.         *)

\* the printed lines that describe a position of the code
C20_PositionDetails(result) ==
    {i \in DOMAIN result.lines :
        result.lines[i][1] \in {"Category (1st): ", "Group (2nd): ", "Attribute ", "Position "}}

\* the display ended normally and printed no position details
C20_Refused(result) ==
    /\ result.status = "returned"
    /\ C20_PositionDetails(result) = {}

C20_RejectedCodeIsNotRendered ==
    ~validate(cfi_code).is_valid =>
        /\ displayed.status # "not called" => C20_Refused(displayed)
        /\ enhanced_displayed.status # "not called" => C20_Refused(enhanced_displayed)

----------------------------------------------------------------------------
(* C16: the taxonomy is never changed by any operation: after any sequence *)
(* of calls to validate (either form), get_position_options,               *)
(* format_attribute_options, generate_cfi_code and display_cfi_details the *)
(* tables CATEGORIES, GROUPS, ATTRIBUTES and POSITION_DESCRIPTIONS equal   *)
(* their initial values, and the caller's input string is unchanged.       *)

C16_TaxonomyAndInputUnchanged ==
    /\ [](memory.taxonomy = Taxonomy)
    /\ [][cfi_code' = cfi_code]_vars

\* every operation has been called, the generator up to its return
C16_Witness ==
    /\ compact.status = "returned"
    /\ detailed.status = "returned"
    /\ position_options.status = "returned"
    /\ formatted.status # "not called"
    /\ enhanced_formatted.status # "not called"
    /\ displayed.status # "not called"
    /\ enhanced_displayed.status = "returned"
    /\ generator.form = "detailed"
    /\ generator.pc = "done"

----------------------------------------------------------------------------
(* C17: validation calls are independent: when several run side by side in *)
(* any interleaving each returns the outcome it returns when run alone on  *)
(* its input, and the position records built by one call are never shared  *)
(* with or altered by another call.                                        *)

\* call c has returned what its validate returns alone, and its
\* positions_info is still as that validate built it
C17_AsAlone(c) ==
    IF calls[c].form = "compact"
    THEN calls[c].outcome = validate(calls[c].code)
    ELSE LET alone == Enhanced_validate(calls[c].code)
         IN  /\ calls[c].outcome = returned_values(alone)
             /\ load(memory, calls[c].ref) = alone.positions_info

C17_CallsAreIndependent ==
    /\ \A c \in DOMAIN calls : calls[c].pc = "done" => C17_AsAlone(c)
    /\ \A c, d \in DOMAIN calls :
          (c # d /\ calls[c].ref # NoReference /\ calls[d].ref # NoReference)
              => calls[c].ref # calls[d].ref

\* a detailed validation ran from its begin to its return while another
\* one, on another input, was between its steps
C17_Witness ==
    \E c, d \in DOMAIN calls :
        /\ calls[c].form = "detailed" /\ calls[d].form = "detailed"
        /\ calls[c].code # calls[d].code
        /\ calls[c].pc = "done" /\ calls[c].outcome.is_valid
        /\ calls[d].pc = "positions"
        /\ calls[d].ref.index < calls[c].ref.index

----------------------------------------------------------------------------
(* C21: the taxonomy is well formed: CATEGORIES has 13 entries, GROUPS has *)
(* exactly the same category keys, and every category owns between one and *)
(* nine groups; so once validate has accepted the category, the lookup of  *)
(* its groups finds a non-empty set and never fails for a missing key.     *)

C21_WellFormed(categories, groups) ==
    /\ Len(categories) = 13
    /\ Cardinality(Range(keys(categories))) = 13
    /\ DOMAIN groups = Range(keys(categories))
    /\ \A c \in DOMAIN groups : Len(groups[c]) \in 1..9

\* the input passes the checks of type, length and letters and its first
\* character is a registered category
C21_CategoryAccepted ==
    /\ basic_validation(cfi_code).status = "continue"
    /\ has_key(CATEGORIES, Normalized[1])

C21_GroupLookupNeverFails ==
    /\ C21_WellFormed(CATEGORIES, GROUPS)
    /\ C21_WellFormed(Enhanced_CATEGORIES, Enhanced_GROUPS)
    /\ (C21_CategoryAccepted /\ CompactDone) =>
          /\ compact.status = "returned"
          /\ GROUPS[Normalized[1]] # <<>>
    /\ (C21_CategoryAccepted /\ DetailedDone) =>
          /\ detailed.status = "returned"
          /\ Enhanced_GROUPS[Normalized[1]] # <<>>

\* both forms looked up a group that the accepted category does not own
C21_Witness ==
    /\ C21_CategoryAccepted
    /\ ~has_key(GROUPS[Normalized[1]], Normalized[2])
    /\ CompactDone /\ DetailedDone
    /\ compact.message = group_message(Normalized[1], Normalized[2])

----------------------------------------------------------------------------
(* C22: the generator moves through its steps in the fixed order category, *)
(* group, attribute 3, 4, 5, 6, complete: it never skips a step, never     *)
(* returns to an earlier one and never prompts for a position already      *)
(* filled; an illegal answer leaves the partial code and the step as they  *)
(* are and the same step is asked again.                                   *)

\* the number of the step the generator is at, 7 being complete
C22_Step(g) ==
    CASE g.pc = "category" -> 1
      [] g.pc = "group" -> 2
      [] g.pc = "attribute" -> g.position
      [] g.pc = "done" -> 7
      [] OTHER -> 0

\* the characters chosen so far
C22_Partial(g) ==
    IF g.form = "compact" /\ g.pc = "group" THEN g.category ELSE g.cfi_code

\* the validator accepts the answer at the step, given the earlier choices;
\* no answer at all stands for X where the pair has no rules
C22_LegalAnswer(g, answer) ==
    LET a == upper(answer)
    IN  CASE g.pc = "category" -> Len(a) = 1 /\ has_key(CATEGORIES, a[1])
          [] g.pc = "group" -> Len(a) = 1 /\ has_key(GROUPS[g.category[1]], a[1])
          [] g.pc = "attribute" ->
               LET category_group == g.category[1] \o g.group[1]
               IN  IF category_group \in DOMAIN ATTRIBUTES
                   THEN /\ Len(a) = 1
                        /\ \/ has_key(item(ATTRIBUTES[category_group], g.position), a[1])
                           \/ a[1] = "X"
                   ELSE a = <<>> \/ (Len(a) = 1 /\ a[1] \in Range(ascii_uppercase))
          [] OTHER -> FALSE

C22_Input(g, answer) ==
    IF g.form = "compact" THEN generate_input(g, answer)
    ELSE Enhanced_generate_input(g, answer)

C22_Awaiting == generator.pc \in {"category", "group", "attribute"}

C22_StepsInFixedOrder ==
    /\ [](C22_Awaiting =>
            /\ Len(C22_Partial(generator)) = C22_Step(generator) - 1
            /\ \A answer \in Answers :
                  ~C22_LegalAnswer(generator, answer)
                      => C22_Input(generator, answer) = generator)
    /\ [][C22_Awaiting =>
            /\ C22_Step(generator') \in {C22_Step(generator), C22_Step(generator) + 1}
            /\ C22_Step(generator') = C22_Step(generator) => generator' = generator]_vars

----------------------------------------------------------------------------
(* C23: given an initial prefix, the generator keeps the longest leading   *)
(* part of the uppercased prefix (at most 6 characters) in which every     *)
(* character is legal at its position given the characters before it,      *)
(* discards everything from the first illegal character on, and prompts    *)
(* only for the positions after the kept part; the finished code begins    *)
(* with the kept part, which is never asked for again or overwritten.      *)

C23_UpperPrefix ==
    IF truthy(passed_prefix) THEN upper(passed_prefix.chars) ELSE <<>>

\* the longest leading part of at most 6 legal characters
C23_Kept ==
    LET u == C23_UpperPrefix
        legal == {n \in 0..6 : n <= Len(u) /\ \A p \in 1..n : LegalAt(u, p)}
    IN  SubSeq(u, 1, CHOOSE n \in legal : \A m \in legal : m <= n)

C23_KeepsLongestLegalPrefix ==
    /\ [][(generator.pc = "not called" /\ generator'.form = "detailed") =>
            /\ generator'.cfi_code = C23_Kept'
            /\ C22_Step(generator') = Len(C23_Kept') + 1]_vars
    /\ [](generator.form = "detailed" =>
            /\ Len(generator.cfi_code) >= Len(C23_Kept)
            /\ SubSeq(generator.cfi_code, 1, Len(C23_Kept)) = C23_Kept
            /\ C22_Awaiting => C22_Step(generator) > Len(C23_Kept))

\* a code was finished from a prefix of which a legal part of three
\* characters was kept and the rest discarded
C23_Witness ==
    /\ generator.form = "detailed"
    /\ generator.pc = "done"
    /\ generator.result # PyNone
    /\ Len(C23_Kept) = 3
    /\ Len(C23_UpperPrefix) > 3

----------------------------------------------------------------------------
(* C24: every key of ATTRIBUTES is a registered category followed by a     *)
(* group registered under it, and every entry defines a non-empty value    *)
(* set for each of the positions 3, 4, 5 and 6; therefore the branch for a *)
(* position without its own rule in a pair with rules, and the             *)
(* per-position "must be alphabetic" failure, are never reached, and every *)
(* failure at positions 3-6 is an InvalidAttribute of a pair with rules.   *)

C24_EveryPositionHasRules(attributes, categories, groups) ==
    /\ DOMAIN attributes \subseteq
          UNION {{c \o g : g \in Range(keys(groups[c]))} : c \in Range(keys(categories))}
    /\ \A pair \in DOMAIN attributes :
          /\ Range(keys(attributes[pair])) = 3..6
          /\ \A p \in 3..6 : item(attributes[pair], p) # <<>>

\* the checks before the attributes pass: six letters, a registered
\* category and a group of it
C24_AttributesReached ==
    /\ basic_validation(cfi_code).status = "continue"
    /\ LegalAt(Normalized, 1)
    /\ LegalAt(Normalized, 2)

\* a rejection after the group was accepted names an attribute of a pair
\* with rules
C24_InvalidAttributeOfPairWithRules(outcome) ==
    (C24_AttributesReached /\ outcome.status # "not called" /\ ~outcome.is_valid) =>
        /\ outcome.status = "returned"
        /\ outcome.message[1] = "Invalid attribute '"
        /\ (Normalized[1] \o Normalized[2]) \in DOMAIN ATTRIBUTES

C24_OnlyInvalidAttributeAtPositions3To6 ==
    /\ C24_EveryPositionHasRules(ATTRIBUTES, CATEGORIES, GROUPS)
    /\ C24_EveryPositionHasRules(Enhanced_ATTRIBUTES, Enhanced_CATEGORIES, Enhanced_GROUPS)
    /\ C24_InvalidAttributeOfPairWithRules(compact)
    /\ C24_InvalidAttributeOfPairWithRules(detailed)

----------------------------------------------------------------------------
(* C25: introspection is sound with respect to validation: for every       *)
(* registered category c, every group g of c and every position p in 3-6,  *)
(* each value offered by get_position_options (categories at position 1,   *)
(* groups of c at position 2, attribute options of (c, g) at p) is         *)
(* accepted by validate at that position: a code built solely from offered *)
(* options is always valid.                                                *)

C25_Offered == Range(keys(position_options.value))

C25_Accepted(s) == Enhanced_validate(PyStr(s)).is_valid

C25_RegisteredCategory ==
    lookup.category # None /\ has_key(CATEGORIES, lookup.category)

C25_RegisteredPair ==
    /\ C25_RegisteredCategory
    /\ lookup.group # None
    /\ has_key(GROUPS[lookup.category], lookup.group)

\* the options offered for position p of the looked-up pair
C25_OfferedAt(p) ==
    Range(keys(get_position_options(lookup.category, lookup.group, p).value))

C25_OfferedOptionsAreAccepted ==
    position_options.status = "returned" =>
        /\ lookup.position = 1 =>
              \A c \in C25_Offered :
                  \A g \in Range(keys(get_position_options(c, None, 2).value)) :
                      C25_Accepted(<<c, g, "X", "X", "X", "X">>)
        /\ (lookup.position = 2 /\ C25_RegisteredCategory) =>
              \A g \in C25_Offered : C25_Accepted(<<lookup.category, g, "X", "X", "X", "X">>)
        /\ (lookup.position \in 3..6 /\ C25_RegisteredPair) =>
              /\ \A a \in C25_Offered :
                    C25_Accepted([<<lookup.category, lookup.group, "X", "X", "X", "X">>
                                     EXCEPT ![lookup.position] = a])
              /\ \A a3 \in C25_OfferedAt(3), a4 \in C25_OfferedAt(4),
                     a5 \in C25_OfferedAt(5), a6 \in C25_OfferedAt(6) :
                    C25_Accepted(<<lookup.category, lookup.group, a3, a4, a5, a6>>)

\* several attribute values of a pair with rules were offered
C25_Witness ==
    /\ position_options.status = "returned"
    /\ lookup.position \in 3..6
    /\ C25_RegisteredPair
    /\ Cardinality(C25_Offered) > 2

----------------------------------------------------------------------------
(* C26: for every code that the detailed validate accepts, in any letter   *)
(* case, display_cfi_details of src/cfi_validator_test.py completes        *)
(* without raising and shows, for positions 2-6, the possible options of   *)
(* the code's own uppercased category and category+group pair.             *)

\* the detailed validate accepts the displayed code
C26_Accepted ==
    /\ Enhanced_validate(cfi_code).status = "returned"
    /\ Enhanced_validate(cfi_code).is_valid

\* the option lines of position pos of the uppercased code u, or the line
\* that tells that the pair has no rules there
C26_OptionsAt(u, pos) ==
    IF pos = 2 THEN option_lines(Enhanced_GROUPS[u[1]])
    ELSE IF /\ u[1] \o u[2] \in DOMAIN Enhanced_ATTRIBUTES
            /\ has_key(Enhanced_ATTRIBUTES[u[1] \o u[2]], pos)
    THEN option_lines(item(Enhanced_ATTRIBUTES[u[1] \o u[2]], pos))
    ELSE << <<"No specific validation rules for this position.">> >>

C26_Options(u) ==
    option_lines(Enhanced_CATEGORIES) \o C26_OptionsAt(u, 2) \o C26_OptionsAt(u, 3)
        \o C26_OptionsAt(u, 4) \o C26_OptionsAt(u, 5) \o C26_OptionsAt(u, 6)

C26_IsOption(line) ==
    line[1] \in {"  ", "No specific validation rules for this position."}

C26_AcceptedCodeIsDisplayedWithItsOptions ==
    (C26_Accepted /\ enhanced_displayed.status # "not called") =>
        /\ enhanced_displayed.status = "returned"
        /\ SelectSeq(enhanced_displayed.lines, C26_IsOption)
               = C26_Options(upper(cfi_code.chars))

====
